---- MODULE Spec2Model ----
(***************************************************************************)
(* GenEx: the Object / Layer / Window entity model (src/object.cpp,        *)
(* src/graphics.cpp) and the multi-window orchestration loop               *)
(* (src/main.cpp, GenEx::Graphics::RunWindow).                             *)
(*                                                                         *)
(* Objects live on a heap; an object's address is its index in `heap`      *)
(* (pointer identity), its instance_id is the value read from the          *)
(* process-wide counter.  A name is a sequence of one-character strings.   *)
(***************************************************************************)
EXTENDS Integers, Sequences, FiniteSets, TLC

\* ------------------------------------------------------------------ bounds
\* Number of objects ever constructed in one run of the entity model.
MaxObjects == 4
\* Number of children of a Layer under dispatch.
MaxChildren == 2
\* Number of objects in the runs that construct, copy, clone and destroy.
MaxLifeObjects == 3
\* Number of destroy() calls counted per object.
MaxDestroyCalls == 2
\* Windows created in a run of main.
MaxWindows == 2
\* Events other than create-window events polled in a run of main.
MaxEvents == 2

\* The clock readings Time::GetTime hands out: 0..MaxTime.
MaxTime == 2

\* --------------------------------------------------------------- constants
\* Object::_num_instances starts at 0.
InitialInstances == 0
\* std::stoi parses into an int.
IntMax == 2147483647
\* Graphics::DEFAULT_FRAMERATE
DefaultFramerate == 144

VARIABLES
    heap,           \* every Object constructed so far, by address
    num_instances,  \* Object::_num_instances
    objects,        \* Layer::objects of every Layer: address -> (id -> address)
    id_map,         \* Layer::id_map of every Layer: address -> (name -> id)
    crashed,        \* the process ran into undefined behaviour and died
    last,           \* record of the last call and what it returned
    mpc,            \* main: where the main thread stands
    events,         \* main: std::vector<SDL_Event> events
    quitflag,       \* main: bool quitflag
    windowthreads,  \* main: object id -> WindowThreadData
    windowtimes,    \* main: the object ids that have a windowtimes entry
    iter,           \* main: the children of winlayer the for loop has yet to visit
    mutex,          \* WindowThreadData::m of every window: who holds it
    wpc,            \* RunWindow: where each window thread stands
    wlocal,         \* RunWindow: the local copy of the event buffer
    running,        \* RunWindow: bool running
    vetoed,         \* whether update or handle_event has returned false to the thread
    native,         \* each Window's SDL window id and the resources it released
    polled,         \* how many events SDL_PollEvent has handed out
    freed,          \* addresses whose object has been deleted
    condwait,       \* what SDL_CondWait does on a mutex the caller does not hold
    dispatched,     \* per window thread: the seq of the event last handed to handle_event
    ctor            \* per thread: where it stands in Object's constructor, and the
                    \* value of _num_instances it has read

evars == <<heap, num_instances, objects, id_map, crashed, last>>

mvars == <<mpc, events, quitflag, windowthreads, windowtimes, iter, mutex, wpc, wlocal,
           running, vetoed, native, polled, freed, condwait, dispatched, ctor>>

vars == <<evars, mvars>>

\* ------------------------------------------------------------ map helpers
MapPut(f, k, v) == [x \in (DOMAIN f) \cup {k} |-> IF x = k THEN v ELSE f[x]]

MapErase(f, k) == [x \in (DOMAIN f) \ {k} |-> f[x]]

Range(f) == {f[x] : x \in DOMAIN f}

EmptyMap == [x \in {} |-> 0]

\* GenEx::Util::FindByValue(vec, elem_map, value): the keys that refer to value.
FindByValue(elem_map, value) == {k \in DOMAIN elem_map : elem_map[k] = value}

\* vec[0] of a FindByValue result.  The maps are kept in bijection, so in every
\* reachable state vec holds exactly one key and the choice is that key.
First(vec) == CHOOSE k \in vec : TRUE

\* ----------------------------------------------------------------- names
DigitChars == <<"0", "1", "2", "3", "4", "5", "6", "7", "8", "9">>

IsDigit(c) == \E i \in 1..10 : DigitChars[i] = c

DigitVal(c) == (CHOOSE i \in 1..10 : DigitChars[i] = c) - 1

\* The match of std::regex_search(name, "(\\d+)(?!.*\\d)"): the leftmost digit
\* run that no digit follows, i.e. the last maximal run of digits of the name,
\* wherever it stands.  MatchEnd is 0 when the name holds no digit.
MatchEnd(name) ==
    IF \E i \in 1..Len(name) : IsDigit(name[i])
    THEN CHOOSE i \in 1..Len(name) :
            /\ IsDigit(name[i])
            /\ \A j \in (i+1)..Len(name) : ~IsDigit(name[j])
    ELSE 0

MatchStart(name) ==
    CHOOSE s \in 1..MatchEnd(name) :
        /\ \A j \in s..MatchEnd(name) : IsDigit(name[j])
        /\ (s = 1 \/ ~IsDigit(name[s-1]))

Matches0(name) == SubSeq(name, MatchStart(name), MatchEnd(name))

\* GenEx::Util::RegexReplace(name, "(\\d+)(?!.*\\d)", ""): the name without the match.
RegexReplace(name) ==
    SubSeq(name, 1, MatchStart(name) - 1) \o SubSeq(name, MatchEnd(name) + 1, Len(name))

RECURSIVE StripZeros(_)
StripZeros(run) ==
    IF Len(run) > 1 /\ run[1] = "0" THEN StripZeros(Tail(run)) ELSE run

RECURSIVE to_string(_)
\* std::to_string of a non-negative int.
to_string(n) ==
    IF n < 10 THEN <<DigitChars[n + 1]>>
    ELSE to_string(n \div 10) \o <<DigitChars[(n % 10) + 1]>>

RECURSIVE LexLess(_, _)
\* s < t for two digit strings of the same length.
LexLess(s, t) ==
    IF s = <<>> THEN FALSE
    ELSE IF DigitVal(s[1]) # DigitVal(t[1]) THEN DigitVal(s[1]) < DigitVal(t[1])
    ELSE LexLess(Tail(s), Tail(t))

\* std::stoi throws std::out_of_range when the digits do not fit an int.
StoIThrows(run) ==
    LET s == StripZeros(run)
        m == to_string(IntMax)
    IN  Len(s) > Len(m) \/ (Len(s) = Len(m) /\ LexLess(m, s))

RECURSIVE StoI(_)
\* std::stoi of a digit run that fits an int.
StoI(run) ==
    IF run = <<>> THEN 0
    ELSE StoI(SubSeq(run, 1, Len(run) - 1)) * 10 + DigitVal(run[Len(run)])

\* One round of the while loop of Layer::add_object on a taken name: "0" is
\* appended when the name holds no digit; otherwise the name is REPLACED by
\* std::to_string(std::stoi(matches[0]) + 1): the assignment of line 362
\* overwrites the result of RegexReplace of line 361.
NameStep(name) ==
    IF MatchEnd(name) = 0
    THEN name \o <<"0">>
    ELSE LET stripped == RegexReplace(name)
         IN  to_string(StoI(Matches0(name)) + 1)

NameStepThrows(name) == MatchEnd(name) # 0 /\ StoIThrows(Matches0(name))

RECURSIVE ResolveName(_, _)
\* The while loop of Layer::add_object: the first candidate absent from the
\* keys of id_map, or the exception std::stoi raised on the way.
ResolveName(name, taken) ==
    IF name \notin taken THEN [throws |-> FALSE, name |-> name]
    ELSE IF NameStepThrows(name) THEN [throws |-> TRUE, name |-> name]
    ELSE ResolveName(NameStep(name), taken)

\* --------------------------------------------------------------- objects
Addrs == 1..Len(heap)

\* The handler table of GenerateEventHandlerStruct(), which Object() uses.
DefaultHandlers == "default"

\* Object::Object(EventHandlers): the init handler runs, then the id is read
\* from the counter and the counter is incremented.  dead starts false.
Construct(kind, pos, n) ==
    [id |-> n, kind |-> kind, pos |-> pos, dead |-> FALSE, destroys |-> 0, calls |-> 0,
     handlers |-> DefaultHandlers]

\* Mutant: the counter is read but not incremented.
NextInstancesStuck(n) == n

NextInstances(n) == n + 1

\* Mutant: destroy() without the `if (!dead)` guard.
ObjectDestroyUnguarded(o) ==
    [o EXCEPT !.dead = TRUE, !.destroys = @ + 1, !.calls = @ + 1]

\* Object::destroy on one heap cell: the handler runs once, on the first call.
ObjectDestroy(o) ==
    IF ~o.dead
    THEN [o EXCEPT !.dead = TRUE, !.destroys = @ + 1, !.calls = @ + 1]
    ELSE [o EXCEPT !.calls = @ + 1]

\* The program state the pure operations below transform.
State == [heap |-> heap, num |-> num_instances, objects |-> objects, id_map |-> id_map]

\* Mutant: clone() as `new Object()`, nothing taken from the source.
CopyObjectBlank(S, a) ==
    [S EXCEPT !.heap = Append(S.heap, Construct("Object", 0, S.num)),
              !.num = NextInstances(S.num)]

\* Object::Object(const Object &other) / Object(Object &&other) / Object::clone:
\* a new object with a fresh id and the other's handlers and spatial state.
CopyObject(S, a) ==
    [S EXCEPT !.heap = Append(S.heap,
                 [Construct("Object", S.heap[a].pos, S.num)
                     EXCEPT !.handlers = S.heap[a].handlers]),
              !.num = NextInstances(S.num)]

\* Layer::add_object(objptr, name) on layer l.
add_object(S, l, a, name) ==
    LET present == FindByValue(S.objects[l], a) # {}
        S1 == IF present THEN CopyObject(S, a) ELSE S
        object_to_add == IF present THEN Len(S1.heap) ELSE a
        r == ResolveName(name, DOMAIN S1.id_map[l])
        oid == S1.heap[object_to_add].id
    IN  IF r.throws
        THEN [S |-> IF present
                    THEN [S1 EXCEPT !.heap[object_to_add] = ObjectDestroy(@)]
                    ELSE S1,
              throws |-> TRUE, name |-> r.name, added |-> 0]
        ELSE [S |-> [S1 EXCEPT !.id_map[l] = MapPut(@, r.name, oid),
                               !.objects[l] = MapPut(@, oid, object_to_add)],
              throws |-> FALSE, name |-> r.name, added |-> object_to_add]

\* Mutant: remove_object(num_id) that forgets the name map.
remove_object_id_keeps_name(S, l, num_id) ==
    IF num_id \in DOMAIN S.objects[l]
    THEN [S EXCEPT !.objects[l] = MapErase(@, num_id)]
    ELSE S

\* Layer::remove_object(Uint64 num_id)
remove_object_id(S, l, num_id) ==
    IF num_id \in DOMAIN S.objects[l]
    THEN LET vec == FindByValue(S.id_map[l], num_id)
         IN  [S EXCEPT !.objects[l] = MapErase(@, num_id),
                       !.id_map[l] = IF vec = {} THEN @ ELSE MapErase(@, First(vec))]
    ELSE S

\* Mutant: remove_object(str_id) that forgets the object map.
remove_object_name_keeps_object(S, l, str_id) ==
    IF str_id \in DOMAIN S.id_map[l]
    THEN [S EXCEPT !.id_map[l] = MapErase(@, str_id)]
    ELSE S

\* Layer::remove_object(std::string str_id)
remove_object_name(S, l, str_id) ==
    IF str_id \in DOMAIN S.id_map[l]
    THEN [S EXCEPT !.objects[l] = MapErase(@, S.id_map[l][str_id]),
                   !.id_map[l] = MapErase(@, str_id)]
    ELSE S

\* Mutant: remove_object(objptr) that leaves both maps as they are.
remove_object_ptr_kept(S, l, a) == S

\* Layer::remove_object(std::shared_ptr<Object> &objptr)
remove_object_ptr(S, l, a) ==
    LET vec == FindByValue(S.objects[l], a)
    IN  IF vec # {}
        THEN LET vec2 == FindByValue(S.id_map[l], First(vec))
             IN  [S EXCEPT !.objects[l] = MapErase(@, First(vec)),
                           !.id_map[l] = IF vec2 = {} THEN @ ELSE MapErase(@, First(vec2))]
        ELSE S

\* nullptr
Null == 0

\* Layer::get_object(Uint64 num_id)
get_object_id(S, l, num_id) ==
    IF num_id \in DOMAIN S.objects[l] THEN S.objects[l][num_id] ELSE Null

\* Mutant: get_object(str_id) as id_map[str_id] without the find.
get_object_name_subscript(S, l, str_id) ==
    IF str_id \in DOMAIN S.id_map[l]
    THEN [S |-> S, result |-> get_object_id(S, l, S.id_map[l][str_id])]
    ELSE [S |-> [S EXCEPT !.id_map[l] = MapPut(@, str_id, 0)], result |-> Null]

\* Layer::get_object(std::string str_id): objects[iter->second] is the map's
\* subscript, which makes a null entry for an id the map does not hold.
get_object_name(S, l, str_id) ==
    IF str_id \in DOMAIN S.id_map[l]
    THEN LET num_id == S.id_map[l][str_id]
         IN  IF num_id \in DOMAIN S.objects[l]
             THEN [S |-> S, result |-> S.objects[l][num_id]]
             ELSE [S |-> [S EXCEPT !.objects[l] = MapPut(@, num_id, Null)],
                   result |-> Null]
    ELSE [S |-> S, result |-> Null]

\* Layer::destroy: guarded by is_dead(); Object::destroy, then both maps cleared.
LayerDestroy(S, l) ==
    IF ~S.heap[l].dead
    THEN [S EXCEPT !.heap[l] = ObjectDestroy(@),
                   !.objects[l] = EmptyMap,
                   !.id_map[l] = EmptyMap]
    ELSE [S EXCEPT !.heap[l].calls = @ + 1]

\* ------------------------------------------------------ dispatch fan-out
\* Every boolean event kind of Events::EventHandlers.
BoolKinds ==
    {"update", "targetreset", "windowevent", "keydown", "keyup", "textediting",
     "textinput", "mousedown", "mouseup", "mousemotion", "mousewheel",
     "clipboardupdate", "filedrop", "textdrop", "begindrop", "completedrop",
     "jaxis", "jball", "jhat", "jbtndown", "jbtnup", "caxis", "cbtndown",
     "cbtnup", "fingerdown", "fingerup", "fingermotion", "gesturerecord",
     "gestureperform", "multigesture", "userevent"}

\* The kinds whose Layer override tests is_dead() before forwarding.
ReapingKinds == {"update", "targetreset"}

DispatchKinds == BoolKinds \cup {"render"}

\* Erasing the element a range-for stands on invalidates its iterator; what the
\* increment then does is undefined: the loop goes on with the old successor,
\* takes the stale link for the end, or the process dies.
UBOutcomes == {"continue", "stop", "crash"}

\* Mutant: the child's result is ignored and the loop goes on.
ChildVetoIgnored(ret) == FALSE

\* `if (!(iter.second->event(...))) return false;`
ChildVeto(ret) == ~ret

Call(a, rets) == [obj |-> a, ret |-> rets[a]]

RECURSIVE ReapLoop(_, _, _, _, _, _, _)
\* The loop of Layer::update and Layer::targetreset over the children, in the
\* map's iteration order.
ReapLoop(S, l, order, i, rets, ub, trace) ==
    IF i > Len(order) THEN [S |-> S, trace |-> trace, exit |-> "end"]
    ELSE IF S.heap[order[i]].dead
    THEN LET S1 == remove_object_ptr(S, l, order[i])
         IN  CASE ub = "crash" -> [S |-> S1, trace |-> trace, exit |-> "crash"]
               [] ub = "stop"  -> [S |-> S1, trace |-> trace, exit |-> "end"]
               [] OTHER        -> ReapLoop(S1, l, order, i + 1, rets, ub, trace)
    ELSE LET t == Append(trace, Call(order[i], rets))
         IN  IF ChildVeto(rets[order[i]])
             THEN [S |-> S, trace |-> t, exit |-> "false"]
             ELSE ReapLoop(S, l, order, i + 1, rets, ub, t)

RECURSIVE PlainLoop(_, _, _, _, _, _)
\* The loop of every other boolean override (windowevent, keydown, ...,
\* userevent): no is_dead() test, every child is forwarded the event.
PlainLoop(S, l, order, i, rets, trace) ==
    IF i > Len(order) THEN [S |-> S, trace |-> trace, exit |-> "end"]
    ELSE LET t == Append(trace, Call(order[i], rets))
         IN  IF ChildVeto(rets[order[i]])
             THEN [S |-> S, trace |-> t, exit |-> "false"]
             ELSE PlainLoop(S, l, order, i + 1, rets, t)

RECURSIVE RenderLoop(_, _, _, _, _, _)
\* The loop of Layer::render: `if (!iter.second->is_dead()) remove_object(...)
\* else iter.second->render(...)`.
RenderLoop(S, l, order, i, ub, trace) ==
    IF i > Len(order) THEN [S |-> S, trace |-> trace, exit |-> "end"]
    ELSE IF ~S.heap[order[i]].dead
    THEN LET S1 == remove_object_ptr(S, l, order[i])
         IN  CASE ub = "crash" -> [S |-> S1, trace |-> trace, exit |-> "crash"]
               [] ub = "stop"  -> [S |-> S1, trace |-> trace, exit |-> "end"]
               [] OTHER        -> RenderLoop(S1, l, order, i + 1, ub, trace)
    ELSE RenderLoop(S, l, order, i + 1, ub,
                    Append(trace, [obj |-> order[i], ret |-> TRUE]))

\* Mutant: the Layer's own handler is run and its result dropped.
OwnResultIgnored(ret) == "true"

\* `return Object::event(...);`
OwnResult(ret) == IF ret THEN "true" ELSE "false"

\* One dispatch method of Layer, whole: the children's loop and the Layer's own
\* Object-level handler.  rets[a] is what the handler of object a returns.
LayerDispatch(S, l, kind, order, rets, ub) ==
    IF kind = "render"
    THEN LET r == RenderLoop(S, l, order, 1, ub, <<[obj |-> l, ret |-> TRUE]>>)
         IN  [S |-> r.S, trace |-> r.trace,
              result |-> IF r.exit = "crash" THEN "crash" ELSE "void"]
    ELSE LET r == IF kind \in ReapingKinds
                  THEN ReapLoop(S, l, order, 1, rets, ub, <<>>)
                  ELSE PlainLoop(S, l, order, 1, rets, <<>>)
         IN  CASE r.exit = "crash" -> [S |-> r.S, trace |-> r.trace, result |-> "crash"]
               [] r.exit = "false" -> [S |-> r.S, trace |-> r.trace, result |-> "false"]
               [] OTHER -> [S |-> r.S, trace |-> Append(r.trace, Call(l, rets)),
                            result |-> OwnResult(rets[l])]

\* The orders in which an unordered_map may hand out the members of set s.
RECURSIVE Orders(_)
Orders(s) ==
    IF s = {} THEN {<<>>}
    ELSE UNION {{<<x>> \o o : o \in Orders(s \ {x})} : x \in s}

RECURSIVE CloneLoop(_, _, _, _, _)
\* The loop of Layer::clone: each child handle of layer l is handed to
\* new_layer->add_object under vec[0], the name it has in l.
CloneLoop(S, l, new_layer, order, i) ==
    IF i > Len(order) THEN S
    ELSE LET vec == FindByValue(S.id_map[l], S.heap[order[i]].id)
         IN  CloneLoop(add_object(S, new_layer, order[i], First(vec)).S,
                       l, new_layer, order, i + 1)

\* Layer::Layer(): an Object with two empty maps.
NewLayerIn(S) ==
    [heap |-> Append(S.heap, Construct("Layer", 0, S.num)),
     num |-> NextInstances(S.num),
     objects |-> MapPut(S.objects, Len(S.heap) + 1, EmptyMap),
     id_map |-> MapPut(S.id_map, Len(S.heap) + 1, EmptyMap)]

\* Layer::clone
LayerClone(S, l, order) == CloneLoop(NewLayerIn(S), l, Len(S.heap) + 1, order, 1)

\* ------------------------------------------------- entity model: actions
\* Names a caller asks for.
InputNames == {<<"a">>, <<"a", "0">>, <<"a", "1", "b">>}

\* Values of the spatial state (position) a caller writes.
PosValues == {0, 1}

Layers == DOMAIN objects

Commit(S) ==
    /\ heap' = S.heap
    /\ num_instances' = S.num
    /\ objects' = S.objects
    /\ id_map' = S.id_map

\* new Object() / new Object(evt_handlers)
NewObject ==
    /\ UNCHANGED mvars
    /\ ~crashed /\ Len(heap) < MaxObjects
    /\ heap' = Append(heap, Construct("Object", 0, num_instances))
    /\ num_instances' = NextInstances(num_instances)
    /\ last' = [op |-> "new", obj |-> Len(heap) + 1]
    /\ UNCHANGED <<objects, id_map, crashed>>

\* a->clone(): Object::clone copies the object, Layer::clone builds a new Layer.
Clone(a) ==
    /\ UNCHANGED mvars
    /\ ~crashed /\ Len(heap) < MaxObjects
    /\ IF heap[a].kind = "Layer"
       THEN \E order \in Orders(Range(objects[a])) : Commit(LayerClone(State, a, order))
       ELSE Commit(CopyObject(State, a))
    /\ last' = [op |-> "clone", src |-> a, obj |-> Len(heap) + 1]
    /\ UNCHANGED crashed

\* a->position = v: the spatial state is public.
Mutate(a, v) ==
    /\ UNCHANGED mvars
    /\ ~crashed /\ heap[a].pos # v
    /\ heap' = [heap EXCEPT ![a].pos = v]
    /\ last' = [op |-> "mutate", obj |-> a]
    /\ UNCHANGED <<num_instances, objects, id_map, crashed>>

\* l->add_object(a, name); the children of the model's Layers are plain Objects.
AddObject(l, a, name) ==
    /\ UNCHANGED mvars
    /\ ~crashed /\ heap[a].kind = "Object"
    /\ FindByValue(objects[l], a) # {} => Len(heap) < MaxObjects
    /\ LET r == add_object(State, l, a, name)
       IN  /\ Commit(r.S)
           /\ last' = [op |-> "add", layer |-> l, obj |-> a, req |-> name,
                       name |-> r.name, throws |-> r.throws, added |-> r.added,
                       names_before |-> DOMAIN id_map[l],
                       ids_before |-> DOMAIN objects[l]]
    /\ UNCHANGED crashed

RemoveById(l, num_id) ==
    /\ UNCHANGED mvars
    /\ ~crashed
    /\ Commit(remove_object_id(State, l, num_id))
    /\ last' = [op |-> "remove", layer |-> l, by |-> "id", key |-> num_id,
                names_before |-> DOMAIN id_map[l], ids_before |-> DOMAIN objects[l]]
    /\ UNCHANGED crashed

RemoveByName(l, str_id) ==
    /\ UNCHANGED mvars
    /\ ~crashed
    /\ Commit(remove_object_name(State, l, str_id))
    /\ last' = [op |-> "remove", layer |-> l, by |-> "name", key |-> str_id,
                names_before |-> DOMAIN id_map[l], ids_before |-> DOMAIN objects[l]]
    /\ UNCHANGED crashed

RemoveByPtr(l, a) ==
    /\ UNCHANGED mvars
    /\ ~crashed
    /\ Commit(remove_object_ptr(State, l, a))
    /\ last' = [op |-> "remove", layer |-> l, by |-> "ptr", key |-> a,
                names_before |-> DOMAIN id_map[l], ids_before |-> DOMAIN objects[l]]
    /\ UNCHANGED crashed

\* l[num_id] / l.get_object(num_id)
GetById(l, num_id) ==
    /\ UNCHANGED mvars
    /\ ~crashed
    /\ last' = [op |-> "get", layer |-> l, by |-> "id", key |-> num_id,
                result |-> get_object_id(State, l, num_id)]
    /\ UNCHANGED <<heap, num_instances, objects, id_map, crashed>>

\* l[str_id] / l.get_object(str_id)
GetByName(l, str_id) ==
    /\ UNCHANGED mvars
    /\ ~crashed
    /\ LET r == get_object_name(State, l, str_id)
       IN  /\ Commit(r.S)
           /\ last' = [op |-> "get", layer |-> l, by |-> "name", key |-> str_id,
                       result |-> r.result]
    /\ UNCHANGED crashed

\* a->destroy(): virtual, Layer::destroy for a Layer.
Destroy(a) ==
    /\ UNCHANGED mvars
    /\ ~crashed /\ heap[a].calls < MaxDestroyCalls
    /\ IF heap[a].kind = "Layer"
       THEN Commit(LayerDestroy(State, a))
       ELSE Commit([State EXCEPT !.heap[a] = ObjectDestroy(@)])
    /\ last' = [op |-> "destroy", obj |-> a, was_dead |-> heap[a].dead]
    /\ UNCHANGED crashed

\* Whether the loop of `kind` erases a child of l while iterating.
ErasesInLoop(l, kind) ==
    \/ kind \in ReapingKinds /\ \E a \in Range(objects[l]) : heap[a].dead
    \/ kind = "render" /\ \E a \in Range(objects[l]) : ~heap[a].dead

\* What the handlers may return: render handlers return nothing.
HandlerResults(l, kind) ==
    IF kind = "render"
    THEN {[a \in Range(objects[l]) \cup {l} |-> TRUE]}
    ELSE [Range(objects[l]) \cup {l} -> BOOLEAN]

\* l->render(...), l->update(...), ..., l->userevent(...).
Dispatch(l, kind) ==
    /\ UNCHANGED mvars
    /\ ~crashed
    /\ \E order \in Orders(Range(objects[l])),
          ub \in IF ErasesInLoop(l, kind) THEN UBOutcomes ELSE {"continue"},
          rets \in HandlerResults(l, kind) :
          LET r == LayerDispatch(State, l, kind, order, rets, ub)
          IN  /\ Commit(r.S)
              /\ crashed' = (r.result = "crash")
              /\ last' = [op |-> "dispatch", layer |-> l, kind |-> kind,
                          children |-> Range(objects[l]),
                          dead_before |-> {a \in Range(objects[l]) : heap[a].dead},
                          trace |-> r.trace, result |-> r.result]

\* The state after `Layer layer;`: one Layer, constructed first, no children.
EInit ==
    /\ heap = <<Construct("Layer", 0, InitialInstances)>>
    /\ num_instances = NextInstances(InitialInstances)
    /\ objects = [l \in {1} |-> EmptyMap]
    /\ id_map = [l \in {1} |-> EmptyMap]
    /\ crashed = FALSE
    /\ last = [op |-> "none"]

\* ------------------------------------------- main loop and window threads
\* `Layer winlayer;` is the first object main constructs.
winlayer == 1

MouseTypes == {"MOUSEBUTTONDOWN", "MOUSEBUTTONUP", "MOUSEMOTION", "MOUSEWHEEL"}

\* The mouse event kinds polled in the model; the filter treats all four alike.
PolledMouseTypes == {"MOUSEMOTION"}

\* SDL_WINDOWEVENT_CLOSE and one of the other window event codes.
WindowEventCodes == {"CLOSE", "SHOWN"}

\* What SDL_PollEvent may hand out besides the create-window event, given the
\* SDL ids of the windows created so far.
PolledEvents(ids) ==
    {[type |-> "QUIT", windowID |-> 0, code |-> "NONE"],
     [type |-> "KEYDOWN", windowID |-> 0, code |-> "NONE"]}
    \cup {[type |-> t, windowID |-> w, code |-> "NONE"] : t \in PolledMouseTypes, w \in ids}
    \cup {[type |-> "WINDOWEVENT", windowID |-> w, code |-> c] :
             w \in ids, c \in WindowEventCodes}

\* std::string("win") + std::to_string(id)
WinName(id) == <<"w", "i", "n">> \o to_string(id)

\* Mutant: a filter without the window-id tests.
AcceptsAll(win_id, evt) == TRUE

\* The filter of the delivery loop.
Accepts(win_id, evt) ==
    \/ evt.type = "WINDOWEVENT" /\ win_id = evt.windowID
    \/ evt.type = "MOUSEBUTTONDOWN" /\ win_id = evt.windowID
    \/ evt.type = "MOUSEBUTTONUP" /\ win_id = evt.windowID
    \/ evt.type = "MOUSEMOTION" /\ win_id = evt.windowID
    \/ evt.type = "MOUSEWHEEL" /\ win_id = evt.windowID
    \/ evt.type # "WINDOWEVENT"

RECURSIVE DeliverLoop(_, _, _, _)
\* for (auto &evt : events): a quit event sets quitflag and leaves the loop,
\* an accepted event is appended to the window's event_buffer.
DeliverLoop(evts, i, win_id, buffer) ==
    IF i > Len(evts)
    THEN [event_buffer |-> buffer, quit |-> FALSE]
    ELSE IF evts[i].type = "QUIT"
    THEN [event_buffer |-> buffer, quit |-> TRUE]
    ELSE DeliverLoop(evts, i + 1, win_id,
                     IF Accepts(win_id, evts[i]) THEN Append(buffer, evts[i]) ELSE buffer)

\* Mutant: `running` cleared whatever the handler returned.
AndAssignCleared(running_now, ret) == FALSE

\* running &= ret
AndAssign(running_now, ret) == running_now /\ ret

\* Window::windowevent: a close request is refused, anything else goes to the
\* Layer fan-out, whose result is the handlers' (ret).
WindowWindowevent(code, ret) == IF code = "CLOSE" THEN FALSE ELSE ret

\* Window::handle_event on the kinds polled in the model.
handle_event(evt, ret) ==
    IF evt.type = "QUIT" THEN FALSE
    ELSE IF evt.type = "WINDOWEVENT" THEN WindowWindowevent(evt.code, ret)
    ELSE ret

\* Mutant: Window::destroy without the `if (!is_dead())` guard.
WindowReleaseUnguarded(nat, o) ==
    [nat EXCEPT !.released = @ \o <<"gl_context", "renderer", "window">>]

\* Window::destroy on the window at address a: Layer::destroy, then the GL
\* context, the renderer and the window are released, all under `!is_dead()`.
WindowRelease(nat, o) ==
    IF ~o.dead
    THEN [nat EXCEPT !.released = @ \o <<"gl_context", "renderer", "window">>]
    ELSE nat

\* Object::~Object on every address of `addrs`: destroy(), resolved to
\* Object::destroy inside the destructor.
RECURSIVE Destruct(_, _)
Destruct(h, addrs) ==
    IF addrs = {} THEN h
    ELSE LET a == First(addrs)
         IN  Destruct([h EXCEPT ![a] = ObjectDestroy(@)], addrs \ {a})

\* Graphics::CreateWindow: the thread data of the new window at address a.
CreateWindow(a) ==
    [window |-> a, event_buffer |-> <<>>, framerate |-> DefaultFramerate,
     complete |-> FALSE]

Alive == ~crashed /\ mpc # "done"

WindowIds == {native[a].window_id : a \in DOMAIN native}

\* The event addwin pushes: type GENEX_CREATEWINDOWEVENT, the window data and
\* the handlers in user.data1 and user.data2.
CreateWindowEvent == [type |-> "CREATEWINDOW", windowID |-> 0, code |-> "NONE"]

\* Mutant: poll_events without the create-window branch.
IsCreateWindowNever(e) == FALSE

\* event.type == GENEX_CREATEWINDOWEVENT
IsCreateWindow(e) == e.type = "CREATEWINDOW"

\* Nothing was polled yet: the head of the queue is the create-window event
\* main pushed through addwin("Test", ...) before the loop.
NothingPolled == DOMAIN native = {} /\ events = <<>> /\ polled = 0

\* poll_events, one SDL_PollEvent that returns GENEX_CREATEWINDOWEVENT:
\* Graphics::CreateWindow builds the window and its thread data and starts the
\* thread; the data is registered and the window joins winlayer as "win<id>".
PollCreate(e) ==
    /\ Alive /\ mpc = "poll"
    /\ IsCreateWindow(e)
    /\ Cardinality(DOMAIN native) < MaxWindows
    /\ LET a == Len(heap) + 1
           id == num_instances
           S1 == [heap |-> Append(heap, Construct("Window", 0, id)),
                  num |-> NextInstances(num_instances),
                  objects |-> MapPut(objects, a, EmptyMap),
                  id_map |-> MapPut(id_map, a, EmptyMap)]
           r == add_object(S1, winlayer, a, WinName(id))
       IN  /\ Commit(r.S)
           /\ crashed' = r.throws
           /\ windowthreads' = MapPut(windowthreads, id, CreateWindow(a))
           /\ mutex' = MapPut(mutex, id, "free")
           /\ wpc' = MapPut(wpc, id, "frame")
           /\ wlocal' = MapPut(wlocal, id, <<>>)
           /\ running' = MapPut(running, id, TRUE)
           /\ vetoed' = MapPut(vetoed, id, FALSE)
           /\ dispatched' = MapPut(dispatched, id, 0)
           /\ native' = MapPut(native, a,
                  [window_id |-> Cardinality(DOMAIN native) + 1, released |-> <<>>])
           /\ last' = [op |-> "polled", event |-> e, seq |-> 0, window |-> id]
    /\ UNCHANGED <<mpc, events, quitflag, windowtimes, iter, polled, freed, condwait, ctor>>

\* poll_events, one SDL_PollEvent that returns any other event:
\* events.emplace_back(event).
PollEvent(e) ==
    /\ Alive /\ mpc = "poll"
    /\ ~IsCreateWindow(e)
    /\ NothingPolled => e = CreateWindowEvent
    /\ polled < MaxEvents
    /\ events' = Append(events,
           [type |-> e.type, windowID |-> e.windowID, code |-> e.code, seq |-> polled + 1])
    /\ polled' = polled + 1
    /\ last' = [op |-> "polled", event |-> e, seq |-> polled + 1, window |-> 0]
    /\ UNCHANGED <<heap, num_instances, objects, id_map, crashed, mpc, quitflag,
                   windowthreads, windowtimes, iter, mutex, wpc,
                   wlocal, running, vetoed, native, freed, condwait, dispatched, ctor>>

\* SDL_PollEvent returns 0; the for loop over winlayer starts.
PollDone ==
    /\ Alive /\ mpc = "poll"
    /\ DOMAIN native # {}
    /\ mpc' = "scan"
    /\ iter' \in Orders(Range(objects[winlayer]))
    /\ UNCHANGED <<evars, events, quitflag, windowthreads, windowtimes, mutex, wpc,
                   wlocal, running, vetoed, native, polled, freed, condwait, dispatched, ctor>>

\* pr == winlayer.end()
ScanEnd ==
    /\ Alive /\ mpc = "scan" /\ iter = <<>>
    /\ mpc' = "clear"
    /\ UNCHANGED <<evars, events, quitflag, windowthreads, windowtimes, iter, mutex, wpc,
                   wlocal, running, vetoed, native, polled, freed, condwait, dispatched, ctor>>

\* The window's thread data says complete: condition, mutex and data are
\* destroyed, the entry erased, the window destroyed and removed from
\* winlayer, and the for loop is left.  The last handle goes out of scope.
Teardown ==
    /\ Alive /\ mpc = "scan" /\ iter # <<>>
    /\ LET obj == Head(iter)
           obj_id == heap[obj].id
       IN  /\ obj_id \in DOMAIN windowthreads
           /\ windowthreads[obj_id].complete
           /\ windowthreads' = MapErase(windowthreads, obj_id)
           /\ mutex' = MapErase(mutex, obj_id)
           /\ native' = [native EXCEPT ![obj] = WindowRelease(@, heap[obj])]
           /\ LET S1 == LayerDestroy(State, obj)
                  S2 == remove_object_ptr(S1, winlayer, obj)
              IN  Commit([S2 EXCEPT !.heap = Destruct(@, {obj})])
           /\ freed' = freed \cup {obj}
    /\ iter' = <<>>
    /\ mpc' = "clear"
    /\ UNCHANGED <<crashed, last, events, quitflag, windowtimes, wpc, wlocal, running,
                   vetoed, polled, condwait, dispatched, ctor>>

\* evt_flag is false (too early for this window's framerate), or the object
\* is no window: next element.
Throttled ==
    /\ Alive /\ mpc = "scan" /\ iter # <<>>
    /\ LET obj_id == heap[Head(iter)].id
       IN  \/ obj_id \notin DOMAIN windowthreads
           \/ /\ obj_id \in DOMAIN windowthreads
              /\ ~windowthreads[obj_id].complete
              /\ obj_id \in windowtimes
              /\ windowthreads[obj_id].framerate > 0
    /\ iter' = Tail(iter)
    /\ UNCHANGED <<evars, mpc, events, quitflag, windowthreads, windowtimes, mutex, wpc,
                   wlocal, running, vetoed, native, polled, freed, condwait, dispatched, ctor>>

\* evt_flag is true: on to SDL_LockMutex.
EvtFlag ==
    /\ Alive /\ mpc = "scan" /\ iter # <<>>
    /\ LET obj_id == heap[Head(iter)].id
       IN  /\ obj_id \in DOMAIN windowthreads
           /\ ~windowthreads[obj_id].complete
    /\ mpc' = "lock"
    /\ UNCHANGED <<evars, events, quitflag, windowthreads, windowtimes, iter, mutex, wpc,
                   wlocal, running, vetoed, native, polled, freed, condwait, dispatched, ctor>>

\* SDL_LockMutex(windowthreads[obj_id]->m) returns.
Lock ==
    /\ Alive /\ mpc = "lock"
    /\ LET obj_id == heap[Head(iter)].id
       IN  /\ mutex[obj_id] = "free"
           /\ mutex' = [mutex EXCEPT ![obj_id] = "main"]
    /\ mpc' = "deliver"
    /\ UNCHANGED <<evars, events, quitflag, windowthreads, windowtimes, iter, wpc,
                   wlocal, running, vetoed, native, polled, freed, condwait, dispatched, ctor>>

\* Where the thread stands once the buffer is cleared: an empty copy leaves the
\* for loop at once, back to `while (running)`.
AfterClear(w) == IF wlocal[w] = <<>> THEN "frame" ELSE "dispatch"

\* What the build can make of emplace_back on event_buffer running against the
\* window thread's unlocked copy or clear of the same vector: the two take
\* effect one after the other; or the clear's store of the end pointer is
\* overwritten by emplace_back's, so that the cleared events stay in the buffer
\* in front of the new ones; or the process dies on a torn vector.
RaceOutcomes == {"serial", "lost_clear", "crash"}

\* The outcomes open to a delivery that turns event_buffer into `buffer`.
PossibleRaces(obj_id, buffer) ==
    IF buffer = windowthreads[obj_id].event_buffer \/ mutex[obj_id] = "win"
    THEN {"serial"}
    ELSE IF wpc[obj_id] = "clear" THEN RaceOutcomes
    ELSE IF wpc[obj_id] = "copy" THEN {"serial", "crash"}
    ELSE {"serial"}

\* The delivery loop over `events` for the window at the head of the scan, then
\* SDL_CondSignal, SDL_UnlockMutex, windowtimes[obj_id] = now; next element.
Deliver(race) ==
    /\ Alive /\ mpc = "deliver"
    /\ LET obj == Head(iter)
           obj_id == heap[obj].id
           win_id == native[obj].window_id
           r == DeliverLoop(events, 1, win_id, windowthreads[obj_id].event_buffer)
       IN  /\ race \in PossibleRaces(obj_id, r.event_buffer)
           /\ crashed' = (race = "crash")
           /\ windowthreads' = [windowthreads EXCEPT ![obj_id].event_buffer = r.event_buffer]
           /\ quitflag' = (quitflag \/ r.quit)
           /\ last' = [op |-> "deliver", obj_id |-> obj_id, win_id |-> win_id,
                       events |-> events,
                       buffer_before |-> windowthreads[obj_id].event_buffer,
                       buffer_after |-> r.event_buffer]
           /\ wpc' = IF wpc[obj_id] = "waiting"
                     THEN [wpc EXCEPT ![obj_id] = "woken"]
                     ELSE IF race = "lost_clear"
                     THEN [wpc EXCEPT ![obj_id] = AfterClear(obj_id)]
                     ELSE wpc
           /\ mutex' = [mutex EXCEPT ![obj_id] = "free"]
           /\ windowtimes' = windowtimes \cup {obj_id}
    /\ iter' = Tail(iter)
    /\ mpc' = "scan"
    /\ UNCHANGED <<heap, num_instances, objects, id_map, events, wlocal,
                   running, vetoed, native, polled, freed, condwait, dispatched, ctor>>

\* Mutant: an outer loop that only a quit event ends.
LoopEndsOnQuit(quit, n) == quit

\* if (winlayer.num_objects() < 1) quitflag = true; then `while (!quitflag)`.
LoopEnds(quit, n) == quit \/ n < 1

\* events.clear(); quitflag is set when winlayer has no child; `while (!quitflag)`.
Clear ==
    /\ Alive /\ mpc = "clear"
    /\ events' = <<>>
    /\ quitflag' = LoopEnds(quitflag, Cardinality(DOMAIN objects[winlayer]))
    /\ mpc' = IF quitflag' THEN "exit" ELSE "poll"
    /\ last' = [op |-> "clear"]
    /\ UNCHANGED <<heap, num_instances, objects, id_map, crashed, windowthreads, windowtimes, iter, mutex, wpc, wlocal, running,
                   vetoed, native, polled, freed, condwait, dispatched, ctor>>

\* winlayer.destroy(); SDL_Quit(); return 0: the children's last handles are
\* dropped, and the process ends with whatever threads still run.
Exit ==
    /\ Alive /\ mpc = "exit"
    /\ LET children == Range(objects[winlayer])
           S1 == LayerDestroy(State, winlayer)
       IN  /\ Commit([S1 EXCEPT !.heap = Destruct(@, children)])
           /\ freed' = freed \cup children
    /\ mpc' = "done"
    /\ UNCHANGED <<crashed, last, events, quitflag, windowthreads, windowtimes, iter,
                   mutex, wpc, wlocal, running, vetoed, native, polled, condwait, dispatched, ctor>>

\* What SDL_CondWait does when the caller does not hold the mutex.
CondWaitOutcomes == {"error", "blocks"}

\* RunWindow, top of the loop: win->render(...); running &= win->update(0);
\* if running, SDL_CondWait(windt->c, windt->m).  The thread never locks m
\* itself: it holds m only if an earlier wait returned with it.
Frame(w, ret) ==
    /\ Alive /\ wpc[w] = "frame"
    /\ running' = [running EXCEPT ![w] = AndAssign(@, ret)]
    /\ vetoed' = [vetoed EXCEPT ![w] = @ \/ ~ret]
    /\ IF ~running'[w]
       THEN /\ wpc' = [wpc EXCEPT ![w] = "complete"]
            /\ mutex' = mutex
       ELSE IF mutex[w] = "win"
       THEN /\ wpc' = [wpc EXCEPT ![w] = "waiting"]
            /\ mutex' = [mutex EXCEPT ![w] = "free"]
       ELSE /\ wpc' = [wpc EXCEPT ![w] = IF condwait = "error" THEN "copy" ELSE "waiting"]
            /\ mutex' = mutex
    /\ UNCHANGED <<evars, mpc, events, quitflag, windowthreads, windowtimes, iter,
                   wlocal, native, polled, freed, condwait, dispatched, ctor>>

\* The signalled thread re-acquires m and SDL_CondWait returns.
Wake(w) ==
    /\ Alive /\ wpc[w] = "woken" /\ mutex[w] = "free"
    /\ mutex' = [mutex EXCEPT ![w] = "win"]
    /\ wpc' = [wpc EXCEPT ![w] = "copy"]
    /\ UNCHANGED <<evars, mpc, events, quitflag, windowthreads, windowtimes, iter,
                   wlocal, running, vetoed, native, polled, freed, condwait, dispatched, ctor>>

\* std::vector<SDL_Event> event_buffer(windt->event_buffer);
CopyBuffer(w) ==
    /\ Alive /\ wpc[w] = "copy"
    /\ wlocal' = [wlocal EXCEPT ![w] = windowthreads[w].event_buffer]
    /\ wpc' = [wpc EXCEPT ![w] = "clear"]
    /\ UNCHANGED <<evars, mpc, events, quitflag, windowthreads, windowtimes, iter, mutex,
                   running, vetoed, native, polled, freed, condwait, dispatched, ctor>>

\* windt->event_buffer.clear();
ClearBuffer(w) ==
    /\ Alive /\ wpc[w] = "clear"
    /\ windowthreads' = [windowthreads EXCEPT ![w].event_buffer = <<>>]
    /\ wpc' = [wpc EXCEPT ![w] = AfterClear(w)]
    /\ UNCHANGED <<evars, mpc, events, quitflag, windowtimes, iter, mutex, wlocal, running,
                   vetoed, native, polled, freed, condwait, dispatched, ctor>>

\* One turn of `for (auto &event : event_buffer)`; after the last event, or on
\* `break`, back to `while (running)`.
HandleEvent(w, ret) ==
    /\ Alive /\ wpc[w] = "dispatch" /\ wlocal[w] # <<>>
    /\ LET r == handle_event(Head(wlocal[w]), ret)
       IN  /\ running' = [running EXCEPT ![w] = AndAssign(@, r)]
           /\ vetoed' = [vetoed EXCEPT ![w] = @ \/ ~r]
           /\ dispatched' = [dispatched EXCEPT ![w] = Head(wlocal[w]).seq]
    /\ wlocal' = [wlocal EXCEPT ![w] = IF running'[w] THEN Tail(@) ELSE <<>>]
    /\ wpc' = [wpc EXCEPT ![w] = IF ~running'[w] THEN "complete"
                                  ELSE IF wlocal'[w] = <<>> THEN "frame"
                                  ELSE "dispatch"]
    /\ UNCHANGED <<evars, mpc, events, quitflag, windowthreads, windowtimes, iter, mutex,
                   native, polled, freed, condwait, ctor>>

\* windt->complete = true; return 0;
Complete(w) ==
    /\ Alive /\ wpc[w] = "complete"
    /\ windowthreads' = [windowthreads EXCEPT ![w].complete = TRUE]
    /\ wpc' = [wpc EXCEPT ![w] = "done"]
    /\ UNCHANGED <<evars, mpc, events, quitflag, windowtimes, iter, mutex, wlocal,
                   running, vetoed, native, polled, freed, condwait, dispatched, ctor>>

\* The threads that construct Objects in their handlers: one per window.
CtorThreads == 1..MaxWindows

\* A thread outside Object's constructor.
NotConstructing == [pc |-> "idle", tmp |-> InitialInstances]

\* The state main's loop starts in: no window yet, the create-window event of
\* addwin("Test", ...) in the queue.
MInit ==
    /\ mpc = "poll"
    /\ events = <<>>
    /\ quitflag = FALSE
    /\ windowthreads = EmptyMap
    /\ windowtimes = {}
    /\ iter = <<>>
    /\ mutex = EmptyMap
    /\ wpc = EmptyMap
    /\ wlocal = EmptyMap
    /\ running = EmptyMap
    /\ vetoed = EmptyMap
    /\ native = EmptyMap
    /\ dispatched = EmptyMap
    /\ polled = 0
    /\ freed = {}
    /\ condwait \in CondWaitOutcomes
    /\ ctor = [t \in CtorThreads |-> NotConstructing]

\* winlayer constructed, nothing polled yet.
MainInit == EInit /\ MInit

MainNext ==
    \/ \E e \in {CreateWindowEvent} : PollCreate(e)
    \/ \E e \in PolledEvents(WindowIds) \cup {CreateWindowEvent} : PollEvent(e)
    \/ PollDone
    \/ ScanEnd
    \/ Teardown
    \/ Throttled
    \/ EvtFlag
    \/ Lock
    \/ \E race \in RaceOutcomes : Deliver(race)
    \/ Clear
    \/ Exit
    \/ \E w \in DOMAIN wpc, ret \in BOOLEAN : Frame(w, ret)
    \/ \E w \in DOMAIN wpc : Wake(w)
    \/ \E w \in DOMAIN wpc : CopyBuffer(w)
    \/ \E w \in DOMAIN wpc : ClearBuffer(w)
    \/ \E w \in DOMAIN wpc, ret \in BOOLEAN : HandleEvent(w, ret)
    \/ \E w \in DOMAIN wpc : Complete(w)

SpecMain == MainInit /\ [][MainNext]_vars

\* A handler called by the window's thread (render, update, or one reached
\* through handle_event) never returns.
Hang(w) ==
    /\ Alive /\ wpc[w] \in {"frame", "dispatch"}
    /\ \A v \in DOMAIN wpc : wpc[v] # "hung"
    /\ wpc' = [wpc EXCEPT ![w] = "hung"]
    /\ UNCHANGED <<evars, mpc, events, quitflag, windowthreads, windowtimes, iter, mutex,
                   wlocal, running, vetoed, native, polled, freed, condwait, dispatched, ctor>>

\* The ids the windows can have: winlayer takes the first id.
WindowIdRange == (InitialInstances + 1)..(InitialInstances + MaxWindows)

\* The events polled where only the scheduling matters.
KeyEvents == {[type |-> "KEYDOWN", windowID |-> 0, code |-> "NONE"]}

\* The steps of the main thread with key events only and no race taken.
MainSteps ==
    \/ \E e \in {CreateWindowEvent} : PollCreate(e)
    \/ \E e \in KeyEvents : PollEvent(e)
    \/ PollDone
    \/ ScanEnd
    \/ Teardown
    \/ Throttled
    \/ EvtFlag
    \/ Lock
    \/ Deliver("serial")
    \/ Clear
    \/ Exit

\* The steps of the thread of window w whose handlers return `ret`.
ThreadSteps(w, ret) ==
    /\ w \in DOMAIN wpc
    /\ \/ Frame(w, ret)
       \/ Wake(w)
       \/ CopyBuffer(w)
       \/ ClearBuffer(w)
       \/ HandleEvent(w, ret)
       \/ Complete(w)

\* The main thread's delivery to window w comes due: evt_flag is true for it.
Due(w) == EvtFlag /\ heap[Head(iter)].id = w

\* Both threads of control are scheduled again and again, and the time since
\* the last delivery to a window passes 1 / framerate in the end.
Scheduling ==
    /\ WF_vars(MainSteps)
    /\ \A w \in WindowIdRange : WF_vars(\E ret \in BOOLEAN : ThreadSteps(w, ret))
    /\ \A w \in WindowIdRange : SF_vars(Due(w))

\* Windows whose handlers all return true, but for one that may hang.
HangNext ==
    \/ \E e \in {CreateWindowEvent} : PollCreate(e)
    \/ \E e \in KeyEvents : PollEvent(e)
    \/ PollDone
    \/ ScanEnd
    \/ Throttled
    \/ EvtFlag
    \/ Lock
    \/ Deliver("serial")
    \/ Clear
    \/ \E w \in DOMAIN wpc : Frame(w, TRUE)
    \/ \E w \in DOMAIN wpc : Wake(w)
    \/ \E w \in DOMAIN wpc : CopyBuffer(w)
    \/ \E w \in DOMAIN wpc : ClearBuffer(w)
    \/ \E w \in DOMAIN wpc : HandleEvent(w, TRUE)
    \/ \E w \in DOMAIN wpc : Hang(w)

SpecHang == MainInit /\ [][HangNext]_vars /\ Scheduling

\* Windows whose handlers all return, true or false.
ReturnNext ==
    \/ MainSteps
    \/ \E w \in DOMAIN wpc, ret \in BOOLEAN : ThreadSteps(w, ret)

SpecReturn == MainInit /\ [][ReturnNext]_vars /\ Scheduling

\* The entity specifications leave the main loop where it starts.
EntityInit == EInit /\ MInit /\ condwait = "error"

\* Layers under add_object / remove_object by id, by name and by handle.
NamesNext ==
    \/ NewObject
    \/ \E l \in Layers, a \in Addrs, name \in InputNames : AddObject(l, a, name)
    \/ \E l \in Layers, num_id \in 0..MaxObjects : RemoveById(l, num_id)
    \/ \E l \in Layers, str_id \in InputNames : RemoveByName(l, str_id)
    \/ \E l \in Layers, a \in Addrs : RemoveByPtr(l, a)
    \/ \E l \in Layers, num_id \in 0..MaxObjects : GetById(l, num_id)
    \/ \E l \in Layers, str_id \in InputNames : GetByName(l, str_id)

SpecNames == EntityInit /\ [][NamesNext]_vars

\* The event kinds dispatched in the model: render, the two kinds whose override
\* tests is_dead(), and three of the twenty-nine overrides whose bodies are the
\* same loop.
CheckedKinds == {"render", "update", "targetreset", "windowevent", "keydown", "userevent"}

\* Layers with live and dead children under dispatch: one Layer, up to
\* MaxChildren Objects, each destroyed at most once.  Between two dispatches the
\* driver takes another step; remove_object of a handle that is not a child is
\* such a step and changes nothing, so every sequence of dispatches stays
\* reachable.
DispatchNext ==
    \/ Len(heap) < MaxChildren + 1 /\ NewObject
    \/ \E l \in Layers, a \in Addrs :
          FindByValue(objects[l], a) = {} /\ AddObject(l, a, <<"a">>)
    \/ \E l \in Layers, a \in Addrs : RemoveByPtr(l, a)
    \/ \E a \in Addrs : ~heap[a].dead /\ Destroy(a)
    \/ \E l \in Layers, kind \in CheckedKinds :
          last.op # "dispatch" /\ Dispatch(l, kind)

SpecDispatch == EntityInit /\ [][DispatchNext]_vars

\* Construction, copy, clone and destruction of Objects and Layers, up to
\* MaxLifeObjects objects in all.
LifeNext ==
    \/ Len(heap) < MaxLifeObjects /\ NewObject
    \/ \E a \in Addrs : Len(heap) < MaxLifeObjects /\ Clone(a)
    \/ \E l \in Layers, a \in Addrs :
          (FindByValue(objects[l], a) # {} => Len(heap) < MaxLifeObjects)
          /\ AddObject(l, a, <<"a">>)
    \/ \E a \in Addrs : Destroy(a)

SpecLife == EntityInit /\ [][LifeNext]_vars

\* Layers and their clones under mutation of the children's spatial state.
CloneNext ==
    \/ Len(heap) < MaxLifeObjects /\ NewObject
    \/ \E a \in Addrs : Len(heap) < MaxLifeObjects /\ Clone(a)
    \/ \E a \in Addrs, v \in PosValues : Mutate(a, v)
    \/ \E l \in Layers, a \in Addrs, name \in InputNames :
          (FindByValue(objects[l], a) # {} => Len(heap) < MaxLifeObjects)
          /\ AddObject(l, a, name)

SpecClone == EntityInit /\ [][CloneNext]_vars

\* What a read of instance_id gives before the constructor has assigned it:
\* the member has no initializer, its value is whatever the memory held.
UninitializedIds == 0..MaxObjects

\* A handler table of the caller's, whose init handler calls obj->get_id().
IdReadingHandlers == "reads_id"

\* new Object(evt_handlers) with an init handler that calls obj->get_id():
\* `event_handlers.init(this);` runs first, `instance_id = _num_instances++;`
\* second, so the handler reads the member unassigned.
NewObjectInit(garbage) ==
    /\ UNCHANGED mvars
    /\ ~crashed /\ Len(heap) < MaxObjects
    /\ heap' = Append(heap, [Construct("Object", 0, num_instances)
                                EXCEPT !.handlers = IdReadingHandlers])
    /\ num_instances' = NextInstances(num_instances)
    /\ last' = [op |-> "init", obj |-> Len(heap) + 1, seen |-> garbage]
    /\ UNCHANGED <<objects, id_map, crashed>>

\* Objects constructed with the default handlers or with an init handler that
\* reads the id, then moved about, copied and destroyed.
InitNext ==
    \/ \E garbage \in UninitializedIds : NewObjectInit(garbage)
    \/ Len(heap) < MaxLifeObjects /\ NewObject
    \/ \E a \in Addrs : Len(heap) < MaxObjects /\ heap[a].kind = "Object" /\ Clone(a)
    \/ \E a \in Addrs, v \in PosValues : Mutate(a, v)
    \/ \E a \in Addrs : Destroy(a)

SpecInit == EntityInit /\ [][InitNext]_vars

\* The constructions that have read the counter and not yet written it.
Constructing == {t \in CtorThreads : ctor[t].pc = "loaded"}

\* `instance_id = _num_instances++` on thread t, first half: the static
\* counter is read.  It is a plain Uint64, no atomic and no lock.
CtorLoad(t) ==
    /\ ~crashed /\ ctor[t].pc = "idle"
    /\ Len(heap) + Cardinality(Constructing) < MaxObjects
    /\ ctor' = [ctor EXCEPT ![t] = [pc |-> "loaded", tmp |-> num_instances]]
    /\ UNCHANGED <<evars, mpc, events, quitflag, windowthreads, windowtimes, iter, mutex,
                   wpc, wlocal, running, vetoed, native, polled, freed, condwait,
                   dispatched>>

\* Second half: the value read plus one is written to the counter, and the
\* value read becomes the id of the object under construction.
CtorStore(t) ==
    /\ ~crashed /\ ctor[t].pc = "loaded"
    /\ num_instances' = NextInstances(ctor[t].tmp)
    /\ heap' = Append(heap, Construct("Object", 0, ctor[t].tmp))
    /\ ctor' = [ctor EXCEPT ![t] = NotConstructing]
    /\ last' = [op |-> "new", obj |-> Len(heap) + 1, thread |-> t]
    /\ UNCHANGED <<objects, id_map, crashed, mpc, events, quitflag, windowthreads,
                   windowtimes, iter, mutex, wpc, wlocal, running, vetoed, native, polled,
                   freed, condwait, dispatched>>

\* Objects constructed by handlers on several threads at once, then moved
\* about and destroyed.
RaceNext ==
    \/ \E t \in CtorThreads : CtorLoad(t)
    \/ \E t \in CtorThreads : CtorStore(t)
    \/ \E a \in Addrs, v \in PosValues : Mutate(a, v)
    \/ \E a \in Addrs : Destroy(a)

SpecRace == EntityInit /\ [][RaceNext]_vars

\* ---------------------------------------------------------------- windows
\* Mutant: Window::windowevent without the close case.
window_windowevent_forwarded(S, w, code, order, rets) ==
    LayerDispatch(S, w, "windowevent", order, rets, "continue")

\* Window::windowevent(event, data1, data2), the children and handlers included.
window_windowevent(S, w, code, order, rets) ==
    IF code = "CLOSE"
    THEN [S |-> S, trace |-> <<>>, result |-> "false"]
    ELSE LayerDispatch(S, w, "windowevent", order, rets, "continue")

\* SDL_BUTTON_LMASK ... SDL_BUTTON_X2MASK are SDL_BUTTON(1) ... SDL_BUTTON(5),
\* with SDL_BUTTON(X) = 1 << (X - 1); SDL_BUTTON_RIGHT is the button index 3.
SDL_BUTTON_LMASK == 1
SDL_BUTTON_MMASK == 2
SDL_BUTTON_RIGHT == 3
SDL_BUTTON_X1MASK == 8
SDL_BUTTON_X2MASK == 16

RECURSIVE BitAnd(_, _)
\* a & b on unsigned integers
BitAnd(a, b) ==
    IF a = 0 \/ b = 0 THEN 0
    ELSE 2 * BitAnd(a \div 2, b \div 2) + (IF a % 2 = 1 /\ b % 2 = 1 THEN 1 ELSE 0)

\* bool b = <Uint32>: any non-zero value is true.
ToBool(n) == n # 0

\* btns[0..4] of the SDL_MOUSEMOTION case.
Buttons(state) ==
    <<ToBool(BitAnd(state, SDL_BUTTON_LMASK)),
      ToBool(BitAnd(state, SDL_BUTTON_MMASK)),
      ToBool(BitAnd(state, SDL_BUTTON_RIGHT)),
      ToBool(BitAnd(state, SDL_BUTTON_X1MASK)),
      ToBool(BitAnd(state, SDL_BUTTON_X2MASK))>>

\* Mutant: a switch with nothing but the default case.
EventMethodNone(type) == "none"

\* The switch of Window::handle_event: the dispatch method each case calls.
EventMethod(type) ==
    CASE type \in {"RENDER_DEVICE_RESET", "RENDER_TARGETS_RESET"} -> "targetreset"
      [] type = "WINDOWEVENT" -> "windowevent"
      [] type = "KEYDOWN" -> "keydown"
      [] type = "KEYUP" -> "keyup"
      [] type = "TEXTEDITING" -> "textediting"
      [] type = "TEXTINPUT" -> "textinput"
      [] type = "MOUSEBUTTONDOWN" -> "mousedown"
      [] type = "MOUSEBUTTONUP" -> "mouseup"
      [] type = "MOUSEMOTION" -> "mousemotion"
      [] type = "MOUSEWHEEL" -> "mousewheel"
      [] type = "CLIPBOARDUPDATE" -> "clipboardupdate"
      [] type = "DROPFILE" -> "filedrop"
      [] type = "DROPTEXT" -> "textdrop"
      [] type = "DROPBEGIN" -> "begindrop"
      [] type = "DROPCOMPLETE" -> "completedrop"
      [] type = "JOYAXISMOTION" -> "jaxis"
      [] type = "JOYBALLMOTION" -> "jball"
      [] type = "JOYHATMOTION" -> "jhat"
      [] type = "JOYBUTTONDOWN" -> "jbtndown"
      [] type = "JOYBUTTONUP" -> "jbtnup"
      [] type = "CONTROLLERAXISMOTION" -> "caxis"
      [] type = "CONTROLLERBUTTONDOWN" -> "cbtndown"
      [] type = "CONTROLLERBUTTONUP" -> "cbtnup"
      [] type = "FINGERDOWN" -> "fingerdown"
      [] type = "FINGERUP" -> "fingerup"
      [] type = "FINGERMOTION" -> "fingermotion"
      [] type = "DOLLARRECORD" -> "gesturerecord"
      [] type = "DOLLARGESTURE" -> "gestureperform"
      [] type = "MULTIGESTURE" -> "multigesture"
      [] type = "USEREVENT" -> "userevent"
      [] OTHER -> "none"

\* case SDL_QUIT: case SDL_APP_TERMINATING:
TerminatingTypes == {"QUIT", "APP_TERMINATING"}

\* Window::handle_event(event), whole: `calls` are the typed dispatch methods
\* of the window it invoked, `trace` the handlers that ran under them.
window_handle_event(S, w, evt, order, rets, ub) ==
    LET method == EventMethod(evt.type)
    IN  IF evt.type \in TerminatingTypes
        THEN [S |-> S, calls |-> <<>>, trace |-> <<>>, result |-> "false", btns |-> <<>>]
        ELSE IF method = "none"
        THEN [S |-> S, calls |-> <<>>, trace |-> <<>>, result |-> "true", btns |-> <<>>]
        ELSE LET r == IF method = "windowevent"
                      THEN window_windowevent(S, w, evt.code, order, rets)
                      ELSE LayerDispatch(S, w, method, order, rets, ub)
             IN  [S |-> r.S, calls |-> <<method>>, trace |-> r.trace, result |-> r.result,
                  btns |-> IF method = "mousemotion" THEN Buttons(evt.state) ELSE <<>>]

\* Every value of event.motion.state over the five button bits.
ButtonStates == 0..(2 * SDL_BUTTON_X2MASK - 1)

\* The event kinds with a case of their own in the switch.
SwitchTypes ==
    {"RENDER_DEVICE_RESET", "RENDER_TARGETS_RESET", "WINDOWEVENT", "KEYDOWN", "KEYUP",
     "TEXTEDITING", "TEXTINPUT", "MOUSEBUTTONDOWN", "MOUSEBUTTONUP", "MOUSEMOTION",
     "MOUSEWHEEL", "CLIPBOARDUPDATE", "DROPFILE", "DROPTEXT", "DROPBEGIN", "DROPCOMPLETE",
     "JOYAXISMOTION", "JOYBALLMOTION", "JOYHATMOTION", "JOYBUTTONDOWN", "JOYBUTTONUP",
     "CONTROLLERAXISMOTION", "CONTROLLERBUTTONDOWN", "CONTROLLERBUTTONUP", "FINGERDOWN",
     "FINGERUP", "FINGERMOTION", "DOLLARRECORD", "DOLLARGESTURE", "MULTIGESTURE",
     "USEREVENT"}

\* Event kinds of SDL the switch has no case for.
OtherTypes == {"JOYDEVICEADDED", "KEYMAPCHANGED", "AUDIODEVICEADDED"}

\* The events handed to handle_event: every kind, every window event code of
\* the model, every button state of a mouse motion.
HandledEvents ==
    {[type |-> t, code |-> "NONE", state |-> 0] :
        t \in (SwitchTypes \cup OtherTypes \cup TerminatingTypes) \ {"WINDOWEVENT"}}
    \cup {[type |-> "WINDOWEVENT", code |-> c, state |-> 0] : c \in WindowEventCodes}
    \cup {[type |-> "MOUSEMOTION", code |-> "NONE", state |-> m] : m \in ButtonStates}

\* The Window objects.
Windows == {a \in Addrs : heap[a].kind = "Window"}

\* The readings of Time::GetTime.
Times == 0..MaxTime

\* The variables of the main loop a Window constructor leaves alone.
NoLoopStep ==
    UNCHANGED <<mpc, events, quitflag, windowthreads, windowtimes, iter, mutex, wpc,
                wlocal, running, vetoed, polled, freed, condwait, dispatched, ctor>>

\* new Window(evt_handlers, dt): a Layer with an SDL window and renderer of
\* its own; the result of SDL_GL_CreateContext is dropped, gl_context stays
\* nullptr; t_prev is the clock's reading.
NewWindow ==
    /\ NoLoopStep
    /\ ~crashed /\ Len(heap) < MaxObjects
    /\ Cardinality(Windows) < MaxWindows
    /\ \E now \in Times :
          LET a == Len(heap) + 1
          IN  /\ heap' = Append(heap, Construct("Window", 0, num_instances))
              /\ num_instances' = NextInstances(num_instances)
              /\ objects' = MapPut(objects, a, EmptyMap)
              /\ id_map' = MapPut(id_map, a, EmptyMap)
              /\ native' = MapPut(native, a,
                     [window_id |-> Cardinality(WindowIds) + 1, released |-> <<>>,
                      t_prev |-> now])
              /\ last' = [op |-> "new", obj |-> a]
    /\ UNCHANGED crashed

\* Window::Window(Window &&other) : Layer(other): the Layer part is a copy
\* with an id of its own; the two maps are moved out of other; window,
\* renderer and gl_context are raw pointers, std::move copies them and other
\* keeps its values.
MoveWindow(other) ==
    /\ NoLoopStep
    /\ ~crashed /\ Len(heap) < MaxObjects
    /\ Cardinality(Windows) < MaxWindows
    /\ LET a == Len(heap) + 1
       IN  /\ heap' = Append(heap, Construct("Window", heap[other].pos, num_instances))
           /\ num_instances' = NextInstances(num_instances)
           /\ objects' = MapPut(MapPut(objects, a, objects[other]), other, EmptyMap)
           /\ id_map' = MapPut(MapPut(id_map, a, id_map[other]), other, EmptyMap)
           /\ native' = MapPut(native, a,
                  [window_id |-> native[other].window_id, released |-> <<>>,
                   t_prev |-> native[other].t_prev])
           /\ last' = [op |-> "move", src |-> other, obj |-> a]
    /\ UNCHANGED crashed

\* w->destroy(): Window::destroy.
DestroyWindow(w) ==
    /\ NoLoopStep
    /\ ~crashed /\ heap[w].calls < MaxDestroyCalls
    /\ native' = [native EXCEPT ![w] = WindowRelease(@, heap[w])]
    /\ Commit(LayerDestroy(State, w))
    /\ last' = [op |-> "destroy", obj |-> w, was_dead |-> heap[w].dead]
    /\ UNCHANGED crashed

\* w->windowevent(code, data1, data2)
WindowEventCall(w, code) ==
    /\ UNCHANGED mvars
    /\ ~crashed
    /\ \E order \in Orders(Range(objects[w])), rets \in HandlerResults(w, "windowevent") :
          LET r == window_windowevent(State, w, code, order, rets)
          IN  /\ Commit(r.S)
              /\ last' = [op |-> "windowevent", obj |-> w, code |-> code, order |-> order,
                          rets |-> rets, trace |-> r.trace, result |-> r.result]
    /\ UNCHANGED crashed

\* w->handle_event(evt)
HandleEventCall(w, evt) ==
    /\ UNCHANGED mvars
    /\ ~crashed
    /\ \E order \in Orders(Range(objects[w])),
          rets \in HandlerResults(w, EventMethod(evt.type)),
          ub \in IF ErasesInLoop(w, EventMethod(evt.type)) THEN UBOutcomes ELSE {"continue"} :
          LET r == window_handle_event(State, w, evt, order, rets, ub)
          IN  /\ Commit(r.S)
              /\ crashed' = (r.result = "crash")
              /\ last' = [op |-> "handle_event", obj |-> w, event |-> evt, order |-> order,
                          rets |-> rets, ub |-> ub, calls |-> r.calls, trace |-> r.trace,
                          result |-> r.result, btns |-> r.btns]

\* The last step was a call of the window's event methods.
AfterCall == last.op \in {"windowevent", "handle_event"}

\* Windows with children, their handlers called directly.  Between two calls
\* the driver takes another step; remove_object of a handle that is not a
\* child is such a step and changes nothing, so every sequence of calls stays
\* reachable.
WindowNext ==
    \/ NewWindow
    \/ NewObject
    \/ \E w \in Windows, a \in Addrs :
          FindByValue(objects[w], a) = {} /\ AddObject(w, a, <<"a">>)
    \/ \E w \in Windows, a \in Addrs : RemoveByPtr(w, a)
    \/ \E w \in Windows, code \in WindowEventCodes :
          ~AfterCall /\ WindowEventCall(w, code)
    \/ \E w \in Windows, evt \in HandledEvents :
          ~AfterCall /\ HandleEventCall(w, evt)

SpecWindow == EntityInit /\ [][WindowNext]_vars

\* Mutant: Layer::update gets the caller's argument.
PassedElapsed(elapsed, now, t_prev) == elapsed

\* t_elapsed = GenEx::Time::GetTime() - t_prev
MeasuredElapsed(elapsed, now, t_prev) == now - t_prev

\* Window::update(elapsed), the clock reading now1 at its first call of
\* GetTime and now2 at its second: Layer::update(t_elapsed), then t_prev is
\* set; a crash inside Layer::update leaves t_prev as it was.
window_update(S, nat, w, elapsed, now1, now2, order, rets, ub) ==
    LET t_elapsed == MeasuredElapsed(elapsed, now1, nat.t_prev)
        r == LayerDispatch(S, w, "update", order, rets, ub)
    IN  [S |-> r.S, passed |-> t_elapsed, trace |-> r.trace, result |-> r.result,
         nat |-> IF r.result = "crash" THEN nat ELSE [nat EXCEPT !.t_prev = now2]]

\* The values a caller passes for elapsed; RunWindow passes 0.
ElapsedArgs == Times

\* w->update(e1), and beside it what w->update(e2) would have done from the
\* same state, at the same clock readings, with the same handler results.
UpdateCall(w, e1, e2) ==
    /\ NoLoopStep
    /\ ~crashed
    /\ \E now1 \in Times, now2 \in Times,
          order \in Orders(Range(objects[w])),
          rets \in HandlerResults(w, "update"),
          ub \in IF ErasesInLoop(w, "update") THEN UBOutcomes ELSE {"continue"} :
          /\ native[w].t_prev <= now1 /\ now1 <= now2
          /\ LET r1 == window_update(State, native[w], w, e1, now1, now2, order, rets, ub)
                 r2 == window_update(State, native[w], w, e2, now1, now2, order, rets, ub)
             IN  /\ Commit(r1.S)
                 /\ native' = [native EXCEPT ![w] = r1.nat]
                 /\ crashed' = (r1.result = "crash")
                 /\ last' = [op |-> "update", obj |-> w, elapsed |-> <<e1, e2>>,
                             now |-> <<now1, now2>>, out |-> <<r1, r2>>]

\* Windows made, moved, updated and destroyed, with children of their own.
\* No two update() calls follow each other directly: another step of the
\* driver lies between them.
HandlesNext ==
    \/ NewWindow
    \/ NewObject
    \/ \E w \in Windows, a \in Addrs \ Windows :
          FindByValue(objects[w], a) = {} /\ AddObject(w, a, <<"a">>)
    \/ \E w \in Windows : MoveWindow(w)
    \/ \E w \in Windows : DestroyWindow(w)
    \/ \E w \in Windows, e1 \in ElapsedArgs, e2 \in ElapsedArgs :
          last.op # "update" /\ UpdateCall(w, e1, e2)

SpecHandles == EntityInit /\ [][HandlesNext]_vars

\* A name whose digit run does not fit an int: the digits of INT_MAX and one more.
OverflowName == to_string(IntMax) \o <<"0">>

\* The names asked for when objects are added again and again.
ReaddNames == {<<"a">>, OverflowName}

\* One Layer, objects added to it under names free or taken, present or not.
ReaddNext ==
    \/ NewObject
    \/ \E l \in Layers, a \in Addrs, name \in ReaddNames : AddObject(l, a, name)
    \/ \E a \in Addrs, v \in PosValues : Mutate(a, v)

SpecReadd == EntityInit /\ [][ReaddNext]_vars

\* ------------------------------------------------------------- properties

\* C1: in a boolean dispatch of a Layer, a child that returns false is the last
\* handler invoked (no later child, not the Layer's own handler) and the
\* dispatch returns false.
C1_ShortCircuit ==
    (last.op = "dispatch" /\ last.kind \in BoolKinds) =>
        \A i \in 1..Len(last.trace) :
            (last.trace[i].obj # last.layer /\ ~last.trace[i].ret) =>
                /\ last.result = "false"
                /\ i = Len(last.trace)

\* C1 witness: a first child returned true, a second child returned false, the
\* dispatch returned false and the Layer's own handler was not run.
C1_Witness ==
    /\ last.op = "dispatch" /\ last.kind \in BoolKinds
    /\ Cardinality(last.children) >= 2
    /\ Len(last.trace) = 2
    /\ last.trace[1].ret /\ ~last.trace[2].ret
    /\ last.trace[2].obj # last.layer
    /\ last.result = "false"

\* C2: a child that is dead when a dispatch starts is in neither map when the
\* dispatch returns, and its handler was not invoked during the dispatch.
C2_DeadChildReaped ==
    (last.op = "dispatch" /\ last.result # "crash") =>
        \A a \in last.dead_before :
            /\ a \notin Range(objects[last.layer])
            /\ heap[a].id \notin Range(id_map[last.layer])
            /\ \A i \in 1..Len(last.trace) : last.trace[i].obj # a

\* C3: the name map and the object map of every Layer are in bijection: each
\* name maps to a key of the object map, each key of the object map is the
\* value of exactly one name.
C3_Bijection ==
    \A l \in Layers :
        /\ \A n \in DOMAIN id_map[l] : id_map[l][n] \in DOMAIN objects[l]
        /\ \A i \in DOMAIN objects[l] : Cardinality(FindByValue(id_map[l], i)) = 1

\* C3 witness: a remove_object call took a child out of a Layer that still
\* holds two children, one of them under a name the collision loop made.
C3_Witness ==
    /\ last.op = "remove"
    /\ DOMAIN objects[last.layer] # last.ids_before
    /\ Cardinality(DOMAIN objects[last.layer]) >= 2
    /\ \E n \in DOMAIN id_map[last.layer] : n \notin InputNames

\* The candidate the claim of C4 describes: a trailing digit run n of P+n is
\* replaced by n+1 behind P, a name without trailing digits gets "0".
TrailStart(name) ==
    CHOOSE s \in 1..(Len(name) + 1) :
        /\ \A j \in s..Len(name) : IsDigit(name[j])
        /\ (s = 1 \/ ~IsDigit(name[s-1]))

ClaimedStep(name) ==
    IF name # <<>> /\ IsDigit(name[Len(name)])
    THEN SubSeq(name, 1, TrailStart(name) - 1)
            \o to_string(StoI(SubSeq(name, TrailStart(name), Len(name))) + 1)
    ELSE name \o <<"0">>

RECURSIVE ClaimedName(_, _)
ClaimedName(name, taken) ==
    IF name \notin taken THEN name ELSE ClaimedName(ClaimedStep(name), taken)

\* C4: add_object returns the first candidate of the suffix-increment sequence
\* (P+n -> P+(n+1), no trailing digits -> append "0") that is absent from the
\* name map: "a","a","a" gives "a","a0","a1".
C4_SuffixIncrement ==
    (last.op = "add" /\ ~last.throws) =>
        last.name = ClaimedName(last.req, last.names_before)

\* C7: Layer::clone returns a Layer with as many children and the same names,
\* every child a copy: another object, with another id, than the original's.
C7_CloneCopiesChildren ==
    (last.op = "clone" /\ heap[last.src].kind = "Layer") =>
        /\ Cardinality(DOMAIN objects[last.obj]) = Cardinality(DOMAIN objects[last.src])
        /\ DOMAIN id_map[last.obj] = DOMAIN id_map[last.src]
        /\ \A n \in DOMAIN id_map[last.obj] : id_map[last.obj][n] # id_map[last.src][n]
        /\ Range(objects[last.obj]) \cap Range(objects[last.src]) = {}

\* C8: the ids of the objects, in the order of their construction, start at the
\* counter's initial value and are strictly increasing, so no id is given twice.
C8_IdsIncrease ==
    /\ heap[1].id = InitialInstances
    /\ \A i, j \in Addrs : i < j => heap[i].id < heap[j].id

\* C8 witness: three constructions, a Layer, an Object and a copy made by clone().
C8_Witness ==
    /\ Len(heap) >= 3
    /\ last.op = "clone"
    /\ \E a \in Addrs : heap[a].kind = "Layer"
    /\ \E a \in Addrs : heap[a].kind = "Object"

C9_Once ==
    \A a \in Addrs :
        /\ heap[a].dead = (heap[a].calls >= 1)
        /\ heap[a].destroys = IF heap[a].calls >= 1 THEN 1 ELSE 0

\* C9: after k >= 1 destroy() calls on an Object or Layer its destroy handler
\* has run exactly once; is_dead() is false before the first call, true after
\* it, and no step makes it false again.
C9_DestroyOnce ==
    /\ []C9_Once
    /\ [][\A a \in Addrs : heap[a].dead => heap'[a].dead]_evars

\* C9 witness: an Object and a Layer that have each been destroyed twice.
C9_Witness ==
    /\ \E a \in Addrs : heap[a].kind = "Object" /\ heap[a].calls >= 2 /\ heap[a].dead
    /\ \E a \in Addrs : heap[a].kind = "Layer" /\ heap[a].calls >= 2 /\ heap[a].dead

\* The events the last delivery appended to the window's buffer.
Appended ==
    SubSeq(last.buffer_after, Len(last.buffer_before) + 1, Len(last.buffer_after))

\* Whether a quit event stands in the batch before position i.
QuitBefore(batch, i) == \E j \in 1..(i - 1) : batch[j].type = "QUIT"

\* C5: in the delivery step a mouse event (button down, button up, motion or
\* wheel) tagged with window id X is appended only to the buffer of the window
\* whose id is X, never to the buffer of a window with a different id.
C5_MouseOnlyToTaggedWindow ==
    last.op = "deliver" =>
        \A k \in 1..Len(Appended) :
            Appended[k].type \in MouseTypes => Appended[k].windowID = last.win_id

\* A window event tagged X is appended only to the buffer of window X.
WindowEventsFiltered ==
    last.op = "deliver" =>
        \A k \in 1..Len(Appended) :
            Appended[k].type = "WINDOWEVENT" => Appended[k].windowID = last.win_id

\* C6 as stated: a window event tagged X is appended only to the buffer of
\* window X, and a keyboard event, which carries no window id, is appended to
\* the buffer of every window that takes delivery in the cycle.
C6_AsStated ==
    /\ WindowEventsFiltered
    /\ last.op = "deliver" =>
          \A i \in 1..Len(last.events) :
              last.events[i].type = "KEYDOWN" =>
                  \E k \in 1..Len(Appended) : Appended[k] = last.events[i]

\* C6: a window event tagged X is appended only to the buffer of window X; a
\* keyboard event, which carries no window id, is appended to the buffer of
\* every window that takes delivery in the cycle if no quit event stands before
\* it in the polled batch; the loop stops at the first quit event, so neither
\* the quit event nor anything polled after it is appended.
C6_Routing ==
    /\ WindowEventsFiltered
    /\ last.op = "deliver" =>
          \A i \in 1..Len(last.events) :
              /\ (last.events[i].type = "KEYDOWN" /\ ~QuitBefore(last.events, i)) =>
                    \E k \in 1..Len(Appended) : Appended[k] = last.events[i]
              /\ (last.events[i].type = "QUIT" \/ QuitBefore(last.events, i)) =>
                    \A k \in 1..Len(Appended) : Appended[k] # last.events[i]

\* A delivery that appended a keyboard event and held back a window event
\* tagged with another window's id.
C6_Witness ==
    /\ last.op = "deliver"
    /\ \E k \in 1..Len(Appended) : Appended[k].type = "KEYDOWN"
    /\ \E i \in 1..Len(last.events) :
          /\ last.events[i].type = "WINDOWEVENT"
          /\ last.events[i].windowID # last.win_id
          /\ \A k \in 1..Len(Appended) : Appended[k] # last.events[i]

\* A thread data's complete flag is set only when update or handle_event has
\* returned false to its thread.
C10_AfterVeto ==
    \A w \in DOMAIN windowthreads : windowthreads[w].complete => vetoed[w]

\* C10: a window's thread sets complete only after update or handle_event on
\* that window returned false; complete is false when the thread data is
\* created, changes only in a step of the window's own thread, and once true
\* never becomes false.
C10_CompleteFlag ==
    /\ []C10_AfterVeto
    /\ [][/\ \A w \in (DOMAIN windowthreads') \ (DOMAIN windowthreads) :
                ~windowthreads'[w].complete
          /\ \A w \in (DOMAIN windowthreads') \cap (DOMAIN windowthreads) :
                /\ windowthreads[w].complete => windowthreads'[w].complete
                /\ windowthreads'[w].complete # windowthreads[w].complete =>
                      wpc[w] = "complete" /\ wpc'[w] = "done"]_vars

\* A window whose thread has left its loop after a veto and set complete.
C10_Witness ==
    \E w \in DOMAIN windowthreads :
        windowthreads[w].complete /\ vetoed[w] /\ wpc[w] = "done"

\* The main thread stands in the delivery loop of window w's buffer.
MainInside(w) == mpc = "deliver" /\ heap[Head(iter)].id = w

\* Window w's thread stands at the copy or the clear of its buffer.
ThreadInside(w) == wpc[w] \in {"copy", "clear"}

\* C11: every access to a window's event buffer, the main thread appending and
\* the window thread copying and clearing, happens while the accessing thread
\* holds that window's mutex, so the two are never inside the buffer together.
C11_BufferUnderMutex ==
    \A w \in DOMAIN windowthreads :
        /\ MainInside(w) => mutex[w] = "main"
        /\ ThreadInside(w) => mutex[w] = "win"
        /\ ~(MainInside(w) /\ ThreadInside(w))

\* Window w's thread hands the head of its local buffer to handle_event.
DispatchStep(w) == wpc[w] = "dispatch" /\ wlocal'[w] # wlocal[w]

\* C12: events reach a window's handle_event in the order the main thread
\* polled them: each dispatched event was polled after the one the window
\* dispatched before it (so none is dispatched twice), and nothing is
\* dispatched once a dispatch has returned false.
C12_DispatchOrder ==
    [][\A w \in DOMAIN wpc :
          DispatchStep(w) =>
              /\ Head(wlocal[w]).seq > dispatched[w]
              /\ running[w]]_vars

HasQuit(evts) == \E i \in 1..Len(evts) : evts[i].type = "QUIT"

\* The step that ends an outer iteration: events.clear() and the loop test.
IterationEnd == mpc = "clear" /\ mpc' # "clear"

\* C13: an outer iteration that polled a quit event ends with the quit flag
\* set and the outer loop left, whatever the windows were (complete, throttled
\* or ready) when the scan visited them.
C13_QuitEndsLoop ==
    [][(IterationEnd /\ HasQuit(events)) => (quitflag' /\ mpc' = "exit")]_vars

\* The step in which main tears a completed window down.
TeardownStep ==
    /\ mpc = "scan"
    /\ DOMAIN windowthreads' # DOMAIN windowthreads

\* The scan has windows left behind the one it is at.
WindowsRemain == iter # <<>> /\ Tail(iter) # <<>>

\* C14: after tearing a completed window down main goes on to the windows the
\* scan has not visited yet, in the same outer iteration, before the polled
\* events are discarded.
C14_TeardownContinues ==
    [][(TeardownStep /\ WindowsRemain) => (mpc' = "scan" /\ iter' = Tail(iter))]_vars

\* The ids of winlayer's children.
ChildIds == DOMAIN objects[winlayer]

\* C15: when the scan of an outer iteration starts or goes on, after polling,
\* the keys of windowthreads are the ids of winlayer's children; a window that
\* was torn down is in neither and is dead.
C15_MapsAgree ==
    mpc = "scan" =>
        /\ DOMAIN windowthreads = ChildIds
        /\ \A a \in freed :
              /\ heap[a].dead
              /\ heap[a].id \notin DOMAIN windowthreads
              /\ heap[a].id \notin ChildIds

\* A scan after one window was torn down while another is still registered.
C15_Witness ==
    /\ mpc = "scan"
    /\ freed # {}
    /\ DOMAIN windowthreads # {}
    /\ iter # <<>>

NoCreateIn(evts) == \A i \in 1..Len(evts) : evts[i].type # CreateWindowEvent.type

\* No create-window event in the shared vector, in a window's buffer or in a
\* window thread's copy of it.
NoCreateQueued ==
    /\ NoCreateIn(events)
    /\ \A w \in DOMAIN windowthreads : NoCreateIn(windowthreads[w].event_buffer)
    /\ \A w \in DOMAIN wlocal : NoCreateIn(wlocal[w])

\* SDL_PollEvent hands the create-window event to poll_events.
CreatePolled ==
    /\ mpc = "poll"
    /\ last' # last
    /\ last'.op = "polled"
    /\ last'.event = CreateWindowEvent

\* Exactly one Window, with its thread data, comes into being.
OneWindowCreated ==
    /\ Len(heap') = Len(heap) + 1
    /\ heap'[Len(heap')].kind = "Window"
    /\ \E id \in DOMAIN windowthreads' \ DOMAIN windowthreads :
          /\ DOMAIN windowthreads' = DOMAIN windowthreads \cup {id}
          /\ windowthreads'[id].window = Len(heap')
          /\ heap'[Len(heap')].id = id
          /\ DOMAIN wpc' = DOMAIN wpc \cup {id}

\* C16: a polled create-window event is consumed by the main thread: it makes
\* exactly one Window with its thread data, and it is appended neither to the
\* shared event vector nor to any window's buffer.
C16_CreateConsumed ==
    /\ []NoCreateQueued
    /\ [][CreatePolled => (OneWindowCreated /\ events' = events)]_vars

\* A second window was created while events were waiting in the shared vector.
C16_Witness ==
    /\ last.op = "polled"
    /\ last.event = CreateWindowEvent
    /\ events # <<>>
    /\ Cardinality(DOMAIN windowthreads) = 2

\* C17: an outer iteration at whose end winlayer has no child is the last one,
\* and one at whose end the quit flag is unset and winlayer has a child is
\* followed by another.
C17_EndsWhenEmpty ==
    [][IterationEnd =>
          /\ ChildIds = {} => mpc' = "exit"
          /\ (~quitflag /\ ChildIds # {}) => (mpc' = "poll" /\ ~quitflag')]_vars

\* The loop was left with no child in winlayer and no quit event ever polled,
\* after an iteration that went round with a child.
C17_Witness ==
    /\ mpc = "exit"
    /\ ChildIds = {}
    /\ polled = 0
    /\ Cardinality(freed) = 2

\* The thread of window w is past SDL_CondWait: a render/update round is done.
RoundDone(w) == w \in DOMAIN wpc /\ wpc[w] = "copy"

\* C18: when a handler on the thread of window a never returns, the thread of
\* every other window b that runs goes on completing render/update rounds.
C18_OthersProgress ==
    \A a, b \in WindowIdRange :
        (a # b) =>
            (<>(a \in DOMAIN wpc /\ b \in DOMAIN wpc /\ wpc[a] = "hung")
                => []<>RoundDone(b))

\* C19: with handlers that all return, every SDL_LockMutex of the main thread
\* on a window's mutex returns in the end, also when the window's thread has
\* left its loop.
C19_LockSucceeds == (mpc = "lock") ~> (mpc # "lock")

\* add_object is called with a handle that is a child of the layer already.
ReaddStep ==
    /\ last'.op = "add"
    /\ (last' # last \/ heap' # heap)
    /\ last'.obj \in Range(objects[last'.layer])

\* C20: add_object with a handle that is already a child of the Layer inserts
\* a copy: the original keeps its entry and its name, the new child has a
\* fresh id, other than the original's, and num_objects() grows by exactly one.
C20_ReaddCopies ==
    [][ReaddStep =>
          LET l == last'.layer
              a == last'.obj
              new_ids == DOMAIN objects'[l] \ DOMAIN objects[l]
          IN  /\ Cardinality(DOMAIN objects'[l]) = Cardinality(DOMAIN objects[l]) + 1
              /\ \A id \in DOMAIN objects[l] :
                    id \in DOMAIN objects'[l] /\ objects'[l][id] = objects[l][id]
              /\ \A n \in DOMAIN id_map[l] :
                    n \in DOMAIN id_map'[l] /\ id_map'[l][n] = id_map[l][n]
              /\ \A id \in new_ids :
                    /\ id # heap[a].id
                    /\ \A b \in Addrs : heap[b].id # id
                    /\ objects'[l][id] # a]_vars

\* Whether the key of a lookup or removal names a child of layer l.
Present(l, by, key) ==
    \/ by = "id" /\ key \in DOMAIN objects[l]
    \/ by = "name" /\ key \in DOMAIN id_map[l]
    \/ by = "ptr" /\ key \in Range(objects[l])

\* The id of the child of layer l the key names.
KeyId(l, by, key) ==
    IF by = "id" THEN key
    ELSE IF by = "name" THEN id_map[l][key]
    ELSE CHOOSE i \in DOMAIN objects[l] : objects[l][i] = key

\* C21: remove_object of a present child, given by id, by name or by handle,
\* takes exactly that child out of both maps: get_object by its id and by its
\* name give null afterwards, num_objects() is one less, and the entries of
\* every other child are as before.
C21_RemoveExactlyOne ==
    [][(last'.op = "remove" /\ Present(last'.layer, last'.by, last'.key)) =>
          LET l == last'.layer
              gone == KeyId(l, last'.by, last'.key)
              names == FindByValue(id_map[l], gone)
          IN  /\ get_object_id(State', l, gone) = Null
              /\ \A n \in names : get_object_name(State', l, n).result = Null
              /\ Cardinality(DOMAIN objects'[l]) = Cardinality(DOMAIN objects[l]) - 1
              /\ DOMAIN objects'[l] = DOMAIN objects[l] \ {gone}
              /\ DOMAIN id_map'[l] = DOMAIN id_map[l] \ names
              /\ \A i \in DOMAIN objects'[l] : objects'[l][i] = objects[l][i]
              /\ \A n \in DOMAIN id_map'[l] : id_map'[l][n] = id_map[l][n]]_vars

\* A child was removed by its handle from a Layer of two; the other is there.
C21_Witness ==
    /\ last.op = "remove" /\ last.by = "ptr"
    /\ Cardinality(last.ids_before) = 2
    /\ Cardinality(DOMAIN objects[last.layer]) = 1
    /\ Cardinality(DOMAIN id_map[last.layer]) = 1

\* C22: get_object with an id or a name the Layer does not hold gives null,
\* remove_object with an id, a name or a handle it does not hold does nothing;
\* both maps stay as they are and nothing is thrown.
C22_MissIsNoOp ==
    [][(last'.op \in {"get", "remove"} /\ ~Present(last'.layer, last'.by, last'.key)) =>
          /\ objects' = objects
          /\ id_map' = id_map
          /\ ~crashed'
          /\ last'.op = "get" => last'.result = Null]_vars

\* A name the Layer does not hold was looked up in a Layer that has a child.
C22_Witness ==
    /\ last.op = "get" /\ last.by = "name"
    /\ last.result = Null
    /\ last.key \notin DOMAIN id_map[last.layer]
    /\ DOMAIN objects[last.layer] # {}

\* The places of the dispatch trace at which the Layer's own handler ran.
OwnCalls == {i \in 1..Len(last.trace) : last.trace[i].obj = last.layer}

\* No child that was forwarded the event returned false.
NoChildVeto ==
    \A i \in 1..Len(last.trace) : last.trace[i].obj # last.layer => last.trace[i].ret

\* The boolean dispatch methods: children first, then the Layer's own handler,
\* whose result is returned when no child vetoed.
OwnHandlerLast ==
    /\ OwnCalls \subseteq {Len(last.trace)}
    /\ NoChildVeto =>
          /\ OwnCalls = {Len(last.trace)}
          /\ last.result = (IF last.trace[Len(last.trace)].ret THEN "true" ELSE "false")

C24_CloseIntercepted ==
    [][last'.op = "windowevent" =>
          IF last'.code = "CLOSE"
          THEN /\ last'.result = "false"
               /\ last'.trace = <<>>
               /\ State' = State
          ELSE LET r == LayerDispatch(State, last'.obj, "windowevent",
                                      last'.order, last'.rets, "continue")
               IN  /\ last'.result = r.result
                   /\ last'.trace = r.trace
                   /\ State' = r.S]_vars

\* A close request came to a window that has a child; no handler ran.
C24_Witness ==
    /\ last.op = "windowevent" /\ last.code = "CLOSE"
    /\ Range(objects[last.obj]) # {}
    /\ last.trace = <<>>
    /\ last.result = "false"

\* C25: Window::handle_event returns false for a quit or terminate event and
\* true for an event of a kind it does not know, invoking no handler in either
\* case; for an event of a kind it knows it invokes exactly one typed dispatch
\* method of the window and returns that method's result.
C25_HandleEvent ==
    [][last'.op = "handle_event" =>
          LET type == last'.event.type
          IN  /\ type \in {"QUIT", "APP_TERMINATING"} =>
                    /\ last'.result = "false"
                    /\ last'.calls = <<>> /\ last'.trace = <<>>
                    /\ State' = State
              /\ type \in OtherTypes =>
                    /\ last'.result = "true"
                    /\ last'.calls = <<>> /\ last'.trace = <<>>
                    /\ State' = State
              /\ type \in SwitchTypes =>
                    /\ Len(last'.calls) = 1
                    /\ last'.calls[1] \in BoolKinds
                    /\ LET r == IF last'.calls[1] = "windowevent"
                                THEN window_windowevent(State, last'.obj, last'.event.code,
                                                        last'.order, last'.rets)
                                ELSE LayerDispatch(State, last'.obj, last'.calls[1],
                                                   last'.order, last'.rets, last'.ub)
                       IN  /\ last'.result = r.result
                           /\ last'.trace = r.trace]_vars

\* A key press went through keydown to a child and to the window, which
\* returned false.
C25_Witness ==
    /\ last.op = "handle_event" /\ last.event.type = "KEYDOWN"
    /\ last.calls = <<"keydown">>
    /\ Len(last.trace) = 2
    /\ last.trace[2].obj = last.obj
    /\ last.result = "false"

\* Bit k of a button state.
BitSet(state, k) == (state \div (2 ^ k)) % 2 = 1

\* C26: for a mouse-motion event, elements 0..4 of the array handle_event
\* passes on are true exactly when the left, middle, right, X1, X2 bit of the
\* button state is set, whatever the other bits.
C26_ButtonArray ==
    (last.op = "handle_event" /\ last.event.type = "MOUSEMOTION") =>
        /\ Len(last.btns) = 5
        /\ \A i \in 1..5 : last.btns[i] <=> BitSet(last.event.state, i - 1)

\* What Window::destroy releases, in its order.
ReleaseOrder == <<"gl_context", "renderer", "window">>

\* What window a had released before the step.
ReleasedBefore(a) == IF a \in DOMAIN native THEN native[a].released ELSE <<>>

\* C27: over any sequence of destroy() calls on a Window the window releases
\* its GL context, renderer and SDL window at most once: only a destroy() call
\* that finds the window alive releases, and it releases the three in the
\* order context, renderer, window.
C27_ReleasedOnce ==
    [][\A a \in DOMAIN native' :
          native'[a].released # ReleasedBefore(a) =>
             /\ a \in DOMAIN native /\ ~heap[a].dead
             /\ last'.op = "destroy" /\ last'.obj = a
             /\ native[a].released = <<>>
             /\ native'[a].released = ReleaseOrder]_vars

\* A second destroy() on a window that had released its resources.
C27_Witness ==
    /\ last.op = "destroy" /\ last.was_dead
    /\ native[last.obj].released = ReleaseOrder

\* The Window objects that have released SDL window h.
Releasers(h) == {a \in DOMAIN native : native[a].window_id = h /\ native[a].released # <<>>}

\* C28: after W2 is move-constructed from W1, W1 holds no handles, so that
\* destroying both releases each resource once: no SDL window is released by
\* two Window objects.
C28_MoveTransfers == \A h \in WindowIds : Cardinality(Releasers(h)) <= 1
\* C29: Window::update does not depend on its elapsed argument: two calls in
\* the same state and at the same clock readings, with different arguments,
\* hand the same self-measured value to Layer::update, return the same result
\* and leave the same state.
C29_ElapsedIgnored == last.op = "update" => last.out[1] = last.out[2]

\* An update of a window with a child, the two arguments different, the
\* measured time not zero.
C29_Witness ==
    /\ last.op = "update" /\ last.elapsed[1] # last.elapsed[2]
    /\ Len(last.out[1].trace) > 1
    /\ last.out[1].passed > 0
    /\ last.out[1].passed # last.elapsed[1]
\* C30: no dispatch call (render, update, targetreset, any input event)
\* removes an alive child: a child that is alive when a dispatch starts is in
\* both maps of the Layer when the dispatch returns.
C30_AliveChildrenStay ==
    (last.op = "dispatch" /\ last.result # "crash") =>
        \A a \in last.children \ last.dead_before :
            /\ a \in Range(objects[last.layer])
            /\ heap[a].id \in Range(id_map[last.layer])

\* The polling numbers of the events in evts.
Seqs(evts) == {evts[i].seq : i \in 1..Len(evts)}

\* The thread of window w is in its loop: no dispatch of it has returned false.
StillRunning(w) == running[w] /\ ~windowthreads[w].complete

\* The SDL id of the window whose object id is w.
WinIdOf(w) == native[objects[winlayer][w]].window_id

\* The event polled as number s has reached window w: it is in w's buffer, in
\* the thread's copy of it, or was handed to handle_event.
Delivered(w, s) ==
    \/ s \in Seqs(windowthreads[w].event_buffer)
    \/ s \in Seqs(wlocal[w])
    \/ dispatched[w] >= s

\* C31: rate limiting loses no event: when the events of an outer iteration
\* are discarded, each of them that is untagged or addressed to a running
\* window W has been appended to W's buffer, also when W's delivery was
\* skipped in this iteration.  Stated for the runs in which nothing else can
\* keep an event from W: no quit event, no teardown so far, and a thread that
\* touches the buffer only with the mutex held (SDL_CondWait blocks).
C31_NoEventLost ==
    [][(IterationEnd /\ freed = {} /\ ~HasQuit(events) /\ condwait = "blocks") =>
          \A w \in DOMAIN windowthreads, i \in 1..Len(events) :
              (StillRunning(w) /\ Accepts(WinIdOf(w), events[i]))
                  => Delivered(w, events[i].seq)]_vars

\* The main loop was left.
LoopLeft == mpc \in {"exit", "done"}

\* C32: after a window's update or handle_event has returned false, the thread
\* sets complete and the main thread, unless its loop was left, tears the
\* window down in the end: the window is in the window-thread map and in
\* winlayer no more.
C32_TornDown ==
    \A w \in WindowIdRange :
        (w \in DOMAIN vetoed /\ vetoed[w])
            ~> (LoopLeft \/ (w \notin DOMAIN windowthreads /\ w \notin ChildIds))

\* C33: a polled quit event is dispatched to every running window thread,
\* whose handle_event returns false, so that the thread leaves its loop and
\* sets complete: when main has returned after a quit event, no registered
\* window thread is still in its loop.
C33_QuitReachesThreads ==
    (mpc = "done" /\ ~crashed) =>
        \A w \in DOMAIN windowthreads : ~running[w] /\ windowthreads[w].complete

\* The window objects the main thread has destroyed or released.
Gone == {a \in Addrs : heap[a].kind = "Window" /\ (a \in freed \/ heap[a].dead)}

\* C34: the main thread destroys or releases a Window only after the window's
\* thread has set complete and returned, on the exit path of the main loop
\* too: no thread is left in its loop on a destroyed or freed Window.
C34_GoneAfterComplete ==
    \A a \in Gone : heap[a].id \in DOMAIN wpc => wpc[heap[a].id] = "done"

\* C35: no event stays in a window's buffer for ever: an event the main thread
\* has appended to the buffer of a window is dispatched by the window's thread
\* in the end, or the window stops running, also when the main thread's
\* signal came before the thread waited on its condition variable.
C35_BufferDrains ==
    \A w \in WindowIdRange, s \in 1..MaxEvents :
        (w \in DOMAIN windowthreads /\ s \in Seqs(windowthreads[w].event_buffer))
            ~> (w \in DOMAIN running /\ (dispatched[w] = s \/ ~running[w]))

\* C36: the id is assigned before the init handler runs: the id the handler
\* reads through get_id() is the id the object has afterwards.
C36_IdBeforeInit == last.op = "init" => last.seen = heap[last.obj].id

\* A step in which an Object is cloned.
CloneStep ==
    /\ last'.op = "clone" /\ Len(heap') = Len(heap) + 1
    /\ heap[last'.src].kind = "Object"

\* The ids assigned so far.
AssignedIds == InitialInstances..(num_instances - 1)

\* C37: Object::clone of any object, dead or alive, yields an object with an
\* id never assigned before, the handler table and the spatial state of the
\* source, and the dead flag false; the source is as it was.
C37_CloneFresh ==
    [][CloneStep =>
          LET src == heap[last'.src]
              new == heap'[last'.obj]
          IN  /\ new.id \notin AssignedIds
              /\ \A a \in Addrs : heap[a].id \in AssignedIds
              /\ new.handlers = src.handlers
              /\ new.pos = src.pos
              /\ ~new.dead
              /\ heap'[last'.src] = src]_vars

\* A clone of a dead object that has handlers of the caller's and was moved.
C37_Witness ==
    /\ last.op = "clone"
    /\ heap[last.src].dead
    /\ heap[last.src].handlers = IdReadingHandlers
    /\ heap[last.src].pos # 0
    /\ ~heap[last.obj].dead

\* C38: the name loop of add_object ends for every requested name and every
\* name map, with a name that was not in the map before the call: each
\* add_object returns, and returns such a name.
C38_NameResolved ==
    last.op = "add" => (~last.throws /\ last.name \notin last.names_before)

\* C39: two Objects constructed at the same time on different threads never
\* get the same id, whatever the interleaving of the reads and the writes of
\* the counter.
C39_DistinctIds == \A a, b \in Addrs : a # b => heap[a].id # heap[b].id
====
